---- MODULE Spec2Model ----
(***************************************************************************)
(* Resume analyzer: the fit-scoring engine of src/ai_component.py.         *)
(*                                                                         *)
(* Text is modelled by TLA+ strings, read character by character with      *)
(* SubSeq, so that normalisation, tokenisation, canonicalisation and the   *)
(* regular expressions of the source are computed as the code computes     *)
(* them.  Years of experience are held in tenths of a year (2.5 years is   *)
(* 25); scores are integers; the overall score is held in hundredths.      *)
(***************************************************************************)
EXTENDS Integers, Sequences, FiniteSets, TLC

VARIABLES call, pc, ret, companies, candidates, heap, threads, written

\* The state of the request layer of src/app.py: the two stores, the dicts of
\* requirements they refer to, the requests in progress and what was written.
app == <<companies, candidates, heap, threads, written>>

vars == <<call, pc, ret, companies, candidates, heap, threads, written>>

(***************************************************************************)
(* Characters and strings                                                  *)
(***************************************************************************)
\* Printable ASCII in code-point order (Python compares str by code point); the
\* double quote, the backslash and the backquote do not occur in the model's texts.
Ascii ==
    " !#$%&'()*+,-./0123456789:;<=>?@ABCDEFGHIJKLMNOPQRSTUVWXYZ[]^_abcdefghijklmnopqrstuvwxyz{|}~"

UpperChars == "ABCDEFGHIJKLMNOPQRSTUVWXYZ"

LowerChars == "abcdefghijklmnopqrstuvwxyz"

DigitChars == "0123456789"

Char(s, i) == SubSeq(s, i, i)

\* The characters of a string, as a set.
CharsOf(s) == {Char(s, i) : i \in 1..Len(s)}

\* Position of character c in string s (0 when absent).
IndexOf(s, c) ==
    IF \E i \in 1..Len(s) : Char(s, i) = c
    THEN CHOOSE i \in 1..Len(s) : Char(s, i) = c
    ELSE 0

\* ord(c): tab and newline sort before every printable character.
OrdMap == [c \in CharsOf(Ascii) |-> IndexOf(Ascii, c)]

Ord(c) == IF c = "\t" THEN 0 - 2 ELSE IF c = "\n" THEN 0 - 1 ELSE OrdMap[c]

Digits == CharsOf(DigitChars)

IsDigit(c) == c \in Digits

\* \s of the re module, over the characters of the model.
IsSpace(c) == c \in {" ", "\t", "\n"}

\* The characters of the model's texts beyond ASCII: letters.
AccentedChars == "é"

\* \w of the re module, over the characters of the model.
WordChars ==
    CharsOf(LowerChars) \cup CharsOf(UpperChars) \cup CharsOf(DigitChars) \cup {"_"}
    \cup CharsOf(AccentedChars)

IsWordChar(c) == c \in WordChars

\* str.lower() on one character.
LowerMap == [c \in CharsOf(UpperChars) |-> Char(LowerChars, IndexOf(UpperChars, c))]

LowerChar(c) == IF c \in DOMAIN LowerMap THEN LowerMap[c] ELSE c

RECURSIVE ConcatRange(_, _, _)
\* The strings ps[i], ..., ps[j] concatenated (halving, to keep the recursion flat).
ConcatRange(ps, i, j) ==
    IF i > j THEN ""
    ELSE IF i = j THEN ps[i]
    ELSE ConcatRange(ps, i, (i + j) \div 2) \o ConcatRange(ps, ((i + j) \div 2) + 1, j)

\* "".join(ps)
Concat(ps) == ConcatRange(ps, 1, Len(ps))

\* str.lower()
Lower(s) == Concat([i \in 1..Len(s) |-> LowerChar(Char(s, i))])

RECURSIVE LStripFrom(_, _)
LStripFrom(s, i) ==
    IF i <= Len(s) /\ IsSpace(Char(s, i)) THEN LStripFrom(s, i + 1) ELSE i

RECURSIVE RStripFrom(_, _)
RStripFrom(s, j) ==
    IF j >= 1 /\ IsSpace(Char(s, j)) THEN RStripFrom(s, j - 1) ELSE j

\* str.strip()
Strip(s) == SubSeq(s, LStripFrom(s, 1), RStripFrom(s, Len(s)))

\* x in s, for strings: x occurs in s as a substring.
Contains(s, x) ==
    \E i \in 1..(Len(s) - Len(x) + 1) : SubSeq(s, i, i + Len(x) - 1) = x

RECURSIVE StrLessFrom(_, _, _)
StrLessFrom(a, b, i) ==
    IF i > Len(b) THEN FALSE
    ELSE IF i > Len(a) THEN TRUE
    ELSE IF Char(a, i) = Char(b, i) THEN StrLessFrom(a, b, i + 1)
    ELSE Ord(Char(a, i)) < Ord(Char(b, i))

\* a < b for Python strings.
StrLess(a, b) == StrLessFrom(a, b, 1)

RECURSIVE Sorted(_)
\* sorted(S) for a set of strings.
Sorted(S) ==
    IF S = {} THEN <<>>
    ELSE LET m == CHOOSE x \in S : \A y \in S : y = x \/ StrLess(x, y)
         IN <<m>> \o Sorted(S \ {m})

\* The set of the elements of a sequence.
Range(s) == {s[i] : i \in 1..Len(s)}

RECURSIVE JoinFrom(_, _, _)
JoinFrom(sep, xs, i) ==
    IF i > Len(xs) THEN ""
    ELSE IF i = Len(xs) THEN xs[i]
    ELSE xs[i] \o sep \o JoinFrom(sep, xs, i + 1)

\* sep.join(xs)
Join(sep, xs) == JoinFrom(sep, xs, 1)

(***************************************************************************)
(* Text normalisation                                                      *)
(***************************************************************************)
\* The character class [a-z0-9+.#/\- ] of normalize.
NormAllowed == CharsOf(LowerChars) \cup CharsOf(DigitChars) \cup {"+", ".", "#", "/", "-", " "}

\* re.sub(r"[^a-z0-9+.#/\- ]+", " ", s): each maximal run of other characters
\* becomes one space (its first character gives the space, the rest nothing).
SubDisallowed(s) ==
    Concat([i \in 1..Len(s) |->
               IF Char(s, i) \in NormAllowed THEN Char(s, i)
               ELSE IF i > 1 /\ Char(s, i - 1) \notin NormAllowed THEN "" ELSE " "])

\* re.sub(r"\s+", " ", s)
CollapseSpace(s) ==
    Concat([i \in 1..Len(s) |->
               IF ~IsSpace(Char(s, i)) THEN Char(s, i)
               ELSE IF i > 1 /\ IsSpace(Char(s, i - 1)) THEN "" ELSE " "])

normalize(s) == Strip(CollapseSpace(SubDisallowed(Lower(s))))

\* The elements of a set of integers in increasing order.
Ascending(S) ==
    [k \in 1..Cardinality(S) |-> CHOOSE i \in S : Cardinality({j \in S : j < i}) = k - 1]

\* The maximal runs of indices i with in[i] (in: a sequence of booleans), left
\* to right, as [from, to] index pairs.
Runs(in) ==
    LET starts == {i \in 1..Len(in) : in[i] /\ (i = 1 \/ ~in[i - 1])}
        ends == {i \in 1..Len(in) : in[i] /\ (i = Len(in) \/ ~in[i + 1])}
        from == Ascending(starts)
        to == Ascending(ends)
    IN [k \in 1..Cardinality(starts) |-> [from |-> from[k], to |-> to[k]]]

\* The substrings of s that the index pairs of runs delimit.
Slices(s, runs) == [k \in 1..Len(runs) |-> SubSeq(s, runs[k].from, runs[k].to)]

\* str.split(): the maximal runs of non-whitespace characters.
Split(s) == Slices(s, Runs([i \in 1..Len(s) |-> ~IsSpace(Char(s, i))]))

tokenize(s) == Split(normalize(s))

(***************************************************************************)
(* Skill lexicon and canonicalisation                                      *)
(***************************************************************************)
DEFAULT_SKILLS ==
    {".net", "adaptability", "adobe", "agile", "ai", "airflow", "analytics", "angular",
     "ansible", "api design", "api gateway", "ar", "artificial intelligence", "asana",
     "asp.net", "attention to detail", "aws", "azure", "bamboo", "bash", "bdd", "blockchain",
     "c", "c#", "c++", "caching", "cassandra", "cdn", "chai", "change management", "chef",
     "circleci", "clean architecture", "clickup", "code review", "communication",
     "computer vision", "confluence", "cordova", "couchdb", "cqrs", "creativity",
     "critical thinking", "cryptocurrency", "cryptography", "css", "cucumber",
     "customer service", "cybersecurity", "cypress", "data analysis", "data science",
     "datadog", "dbt", "deep learning", "distributed systems", "django", "dl", "docker",
     "domain driven design", "dotnet", "dynamodb", "e-commerce", "edge computing", "edtech",
     "elasticsearch", "elk stack", "encryption", "eslint", "etl", "event sourcing",
     "event streaming", "excel", "express", "fastapi", "figma", "fintech", "firebase",
     "firewall", "flask", "flutter", "gaming", "gatsby", "gcp", "gdpr", "git",
     "github actions", "gitlab ci", "go", "golang", "grafana", "graphql", "grpc", "hadoop",
     "healthcare", "hexagonal architecture", "hipaa", "html", "iaas", "illustrator",
     "influxdb", "integration testing", "invision", "ionic", "iot", "istio", "java",
     "javascript", "jenkins", "jest", "jira", "junit", "jwt", "k8s", "kafka", "kanban",
     "keras", "kotlin", "kubernetes", "lambda", "laravel", "leadership", "linkerd", "linux",
     "load balancing", "logging", "looker", "machine learning", "mariadb", "matlab",
     "mentoring", "message queues", "metaverse", "microservices", "ml", "mocha", "monday.com",
     "mongodb", "monitoring", "mysql", "nagios", "natural language processing", "neo4j",
     "nest.js", "network administration", "neural networks", "new relic", "next.js", "nlp",
     "node", "node.js", "notion", "numpy", "nuxt.js", "oauth", "oauth2", "opencv", "oracle",
     "owasp", "paas", "pandas", "pci dss", "penetration testing", "photoshop", "php",
     "postgres", "postgresql", "power bi", "powershell", "prettier", "problem solving",
     "progressive web apps", "project management", "prometheus", "puppet", "pwa", "pytest",
     "python", "pytorch", "qlik", "quantum computing", "r", "rails", "rbac", "react",
     "react native", "redis", "rest api", "risk management", "ruby", "rust", "saas", "sass",
     "scala", "scikit-learn", "scipy", "scrum", "scss", "secure coding", "security auditing",
     "security compliance", "selenium", "serverless", "service mesh", "shell scripting",
     "sketch", "sklearn", "slack", "soap", "sonarqube", "spark", "spinnaker", "splunk",
     "spring", "spring boot", "sql", "sql server", "sqlite", "ssl", "stakeholder management",
     "static analysis", "statistics", "svelte", "swift", "symfony", "system administration",
     "system design", "tableau", "tdd", "teams", "teamwork", "tensorflow", "terraform",
     "test automation", "testng", "tf", "time management", "tls", "travis ci", "trello",
     "typescript", "unit testing", "unix", "vba", "vr", "vue", "vulnerability assessment",
     "waterfall", "websocket", "windows", "xamarin", "zabbix", "zeplin", "zoom"}

SKILL_SYNONYMS ==
    ("js" :> "javascript") @@
    ("ts" :> "typescript") @@
    ("tf" :> "tensorflow") @@
    ("scikit learn" :> "scikit-learn") @@
    ("ml" :> "machine learning") @@
    ("dl" :> "deep learning") @@
    ("postgresql" :> "postgres") @@
    ("go" :> "golang") @@
    ("k8s" :> "kubernetes") @@
    ("ai" :> "artificial intelligence") @@
    ("data eng" :> "data engineering") @@
    ("big data" :> "data science")

\* canonicalize_skill with the alias looked up before the token is trimmed and
\* lowered.
canonicalize_skill_lookup_first(tok) ==
    Lower(Strip(IF tok \in DOMAIN SKILL_SYNONYMS THEN SKILL_SYNONYMS[tok] ELSE tok))

canonicalize_skill(tok) ==
    LET t == Lower(Strip(tok))
    IN IF t \in DOMAIN SKILL_SYNONYMS THEN SKILL_SYNONYMS[t] ELSE t

\* zip(toks, toks[1:]) joined by a space: the adjacent token pairs.
Bigrams(toks) == {toks[i] \o " " \o toks[i + 1] : i \in 1..(Len(toks) - 1)}

\* extract_skills with the custom skills compared as given, not canonicalized.
extract_skills_raw_custom(text, custom_list) ==
    LET toks == tokenize(text)
        cands == {canonicalize_skill(t) : t \in Range(toks) \cup Bigrams(toks)}
    IN Sorted((cands \cap DEFAULT_SKILLS) \cup (cands \cap Range(custom_list)))

\* custom_list is a sequence of strings; the empty sequence stands for None too
\* (both are falsy at "if custom_list").
extract_skills(text, custom_list) ==
    LET toks == tokenize(text)
        cands == {canonicalize_skill(t) : t \in Range(toks) \cup Bigrams(toks)}
        uni == cands \cap DEFAULT_SKILLS
        canonical_custom_skills == {canonicalize_skill(s) : s \in Range(custom_list)}
    IN Sorted(uni \cup (IF Len(custom_list) > 0 THEN cands \cap canonical_custom_skills ELSE {}))

(***************************************************************************)
(* Experience extraction                                                   *)
(***************************************************************************)
RECURSIVE DigitsEnd(_, _)
\* Index of the last digit of the run of digits starting at i (greedy \d+).
DigitsEnd(s, i) ==
    IF i < Len(s) /\ IsDigit(Char(s, i + 1)) THEN DigitsEnd(s, i + 1) ELSE i

RECURSIVE SkipSpace(_, _)
\* Index of the first character at or after i that \s* does not take.
SkipSpace(s, i) ==
    IF i <= Len(s) /\ IsSpace(Char(s, i)) THEN SkipSpace(s, i + 1) ELSE i

\* s[i..i+n-1] lowered, or "" when the text ends before (re.I comparison).
LowerAt(s, i, n) == IF i + n - 1 <= Len(s) THEN Lower(SubSeq(s, i, i + n - 1)) ELSE ""

\* \+? tried at index k: the index after it.
SkipPlus(s, k) == IF k <= Len(s) /\ Char(s, k) = "+" THEN k + 1 ELSE k

\* The optional s of years? and yrs? tried at index e: the index after it.
SkipOptS(s, e) == IF e <= Len(s) /\ LowerChar(Char(s, e)) = "s" THEN e + 1 ELSE e

\* (?:years?|yrs?) tried at index k: the index after the match, 0 when it does
\* not match.
YearWord(s, k) ==
    IF LowerAt(s, k, 4) = "year" THEN SkipOptS(s, k + 4)
    ELSE IF LowerAt(s, k, 2) = "yr" THEN SkipOptS(s, k + 2)
    ELSE 0

\* \s*\+?\s*(?:years?|yrs?) tried at index k: the index after the match, 0 when
\* it does not match.
YearTail(s, k) == YearWord(s, SkipSpace(s, SkipPlus(s, SkipSpace(s, k))))

RECURSIVE DigitsValue(_, _, _)
\* The number written by the digits s[i..j].
DigitsValue(s, i, j) ==
    IF j < i THEN 0 ELSE 10 * DigitsValue(s, i, j - 1) + (IndexOf(DigitChars, Char(s, j)) - 1)

\* s[e1+1..] opens with a fraction: a point and a digit.
HasFrac(s, e1) == e1 + 2 <= Len(s) /\ Char(s, e1 + 1) = "." /\ IsDigit(Char(s, e1 + 2))

\* YEAR_PATTERN tried at the digits s[i..e1], e1 the end of the run of digits.
\* Digits of the fraction after the first are dropped: the texts of the model
\* state one at most.
YearMatchDigits(s, i, e1) ==
    IF HasFrac(s, e1) /\ YearTail(s, DigitsEnd(s, e1 + 2) + 1) > 0
    THEN [end |-> YearTail(s, DigitsEnd(s, e1 + 2) + 1),
          years |-> 10 * DigitsValue(s, i, e1) + (IndexOf(DigitChars, Char(s, e1 + 2)) - 1)]
    ELSE [end |-> YearTail(s, e1 + 1), years |-> 10 * DigitsValue(s, i, e1)]

\* YEAR_PATTERN tried at index i: [end |-> index after the match, years |->
\* float(group(1)) in tenths], end = 0 when there is no match at i.
YearMatchAt(s, i) ==
    IF ~IsDigit(Char(s, i)) THEN [end |-> 0, years |-> 0]
    ELSE YearMatchDigits(s, i, DigitsEnd(s, i))

\* YEAR_PATTERN.finditer(text): the non-overlapping matches, left to right.  at is
\* the set of indices the pattern matches at; the scan resumes after each match,
\* so an index inside an earlier match (a later digit of its number) gives none.
YearMatches(s, at) ==
    {YearMatchAt(s, k).years :
        k \in {x \in at : \A i \in at : ~(i < x /\ x < YearMatchAt(s, i).end)}}

Max(S) == CHOOSE x \in S : \A y \in S : y <= x

\* max(float(m.group(1)) for m in matches) if matches else None
MaxOrNone(matches) ==
    IF matches # {} THEN [some |-> TRUE, years |-> Max(matches)] ELSE [some |-> FALSE]

\* Optional[float]: [some |-> FALSE] is None.
extract_years_of_experience(text) ==
    MaxOrNone(YearMatches(text, {i \in 1..Len(text) : YearMatchAt(text, i).end > 0}))

(***************************************************************************)
(* Education                                                               *)
(***************************************************************************)
EDU_KEYWORDS ==
    {"ai", "artificial intelligence", "business administration", "chemistry",
     "cloud computing", "computer science", "cyber security", "data science", "design",
     "electrical", "electronics", "finance", "information technology", "machine learning",
     "marketing", "mathematics", "network engineering", "physics", "software engineering",
     "statistics"}

DEGREE_KEYWORDS ==
    {"associate", "b.tech", "bachelor", "be", "bsc", "btech", "diploma", "doctorate", "m.tech",
     "master", "ms", "msc", "mtech", "phd"}

\* requirements.get(key, []) for the list-valued keys.
GetList(requirements, key) ==
    IF key \in DOMAIN requirements THEN requirements[key] ELSE <<>>

has_degree(resume_text) ==
    LET r == normalize(resume_text)
    IN \E d \in DEGREE_KEYWORDS : Contains(r, d)

edu_field_match(requirements, resume_text) ==
    LET req_edus == {normalize(x) : x \in Range(GetList(requirements, "education"))}
        r == normalize(resume_text)
    IN (\E e \in EDU_KEYWORDS : Contains(r, e)) \/ (\E e \in req_edus : Contains(r, e))

\* education_match_score with the top tier given without required education.
education_match_score_no_req_check(requirements, resume_text) ==
    LET degree == has_degree(resume_text)
        field == edu_field_match(requirements, resume_text)
    IN IF field /\ degree THEN 100 ELSE IF field \/ degree THEN 70 ELSE 40

education_match_score(requirements, resume_text) ==
    LET req_edus == GetList(requirements, "education")
        degree == has_degree(resume_text)
        field == edu_field_match(requirements, resume_text)
    IN IF Len(req_edus) > 0 /\ field /\ degree THEN 100
       ELSE IF field \/ degree THEN 70
       ELSE 40

(***************************************************************************)
(* Similarity scoring (TF-IDF)                                             *)
(***************************************************************************)
\* TfidfVectorizer's default analyzer: lowercase, then token_pattern
\* (?u)\b\w\w+\b, the runs of two or more word characters.
TfidfTokens(doc) ==
    Slices(Lower(doc),
           SelectSeq(Runs([i \in 1..Len(doc) |-> IsWordChar(Char(doc, i))]),
                     LAMBDA r : r.to > r.from))

\* The dot product of the raw counts of two token sequences: the sum over the
\* terms t of both of tf(ta, t) * tf(tb, t), which is the number of pairs of
\* equal tokens.
Dot(ta, tb) ==
    Cardinality({p \in (1..Len(ta)) \X (1..Len(tb)) : ta[p[1]] = tb[p[2]]})

\* 81 times the squared norm of the tf-idf vector of ta, tb being the other
\* document: a term of both weighs idf^2 = 1, a term of ta alone 160/81.
Norm2(ta, tb) ==
    81 * Cardinality({p \in (1..Len(ta)) \X (1..Len(ta)) :
                         ta[p[1]] = ta[p[2]] /\ ta[p[1]] \in Range(tb)})
    + 160 * Cardinality({p \in (1..Len(ta)) \X (1..Len(ta)) :
                            ta[p[1]] = ta[p[2]] /\ ta[p[1]] \notin Range(tb)})

RECURSIVE LeqFrac(_, _, _, _)
\* a/b <= c/d for naturals a, c and positive b, d, by continued fractions (no
\* product is formed, so nothing leaves the 32-bit integers of the checker).
LeqFrac(a, b, c, d) ==
    IF a \div b # c \div d THEN a \div b < c \div d
    ELSE IF a % b = 0 THEN TRUE
    ELSE IF c % d = 0 THEN FALSE
    ELSE LeqFrac(d, c % d, b, a % b)

RECURSIVE SqrtFracScaled(_, _, _, _)
\* The largest s in lo..hi with (s/10000)^2 <= p/q, by bisection (lo satisfies it).
SqrtFracScaled(p, q, lo, hi) ==
    IF lo = hi THEN lo
    ELSE LET mid == (lo + hi + 1) \div 2
         IN IF LeqFrac(mid * mid, 10000 * 10000, p, q)
            THEN SqrtFracScaled(p, q, mid, hi)
            ELSE SqrtFracScaled(p, q, lo, mid - 1)

\* cosine_similarity of two tf-idf rows, in units of 1/10000 rounded down, from
\* their dot product (times 81) and squared norms (times 81); 0 for a zero vector.
Cosine(dot, na, nb) ==
    IF dot = 0 THEN 0 ELSE SqrtFracScaled((81 * dot) * (81 * dot), na * nb, 0, 10000)

\* tfidf_cosine on the token sequences of the two documents.
TokenCosine(ta, tb) ==
    IF Len(ta) = 0 /\ Len(tb) = 0 THEN [raises |-> TRUE]
    ELSE [raises |-> FALSE, sim |-> Cosine(Dot(ta, tb), Norm2(ta, tb), Norm2(tb, ta))]

\* tfidf_cosine(a, b): [raises |-> TRUE] when fit_transform raises ValueError
\* ("empty vocabulary"), else [raises |-> FALSE, sim |-> the cosine in units of
\* 1/10000, rounded down].  With two documents and smooth_idf, a term of both
\* documents has idf 1 and a term of one has idf 1 + ln(3/2), whose square
\* 1.97533 is taken as 160/81 = 1.97531; tf is the raw count; cosine_similarity
\* gives 0 for a zero vector.
tfidf_cosine(a, b) == TokenCosine(TfidfTokens(a), TfidfTokens(b))

(***************************************************************************)
(* Fit analysis (weighted)                                                 *)
(*                                                                         *)
(* A requirement set is a function from some of the keys "skills",         *)
(* "experience", "education" (the dict of the source).  "experience" is a   *)
(* number of tenths of a year, "education" a sequence of strings, and       *)
(* "skills" is [list |-> a sequence of strings] or, for a value that is not *)
(* a list, [str |-> a string].                                             *)
(***************************************************************************)
\* What iterating over requirements.get("skills", []) yields: the items of a
\* list, the one-character strings of a str.
SkillItems(requirements) ==
    IF "skills" \notin DOMAIN requirements THEN <<>>
    ELSE LET v == requirements["skills"]
         IN IF "str" \in DOMAIN v THEN [i \in 1..Len(v.str) |-> Char(v.str, i)] ELSE v.list

RECURSIVE NatStr(_)
\* str(n) for a natural number n.
NatStr(n) == IF n < 10 THEN Char(DigitChars, n + 1) ELSE NatStr(n \div 10) \o Char(DigitChars, (n % 10) + 1)

\* str(x) for the number of x tenths: an int when x is whole, else a float.
NumStr(x) ==
    LET a == IF x < 0 THEN 0 - x ELSE x
    IN (IF x < 0 THEN "-" ELSE "") \o NatStr(a \div 10)
       \o (IF a % 10 = 0 THEN "" ELSE "." \o NatStr(a % 10))

\* Requirements flattened for the semantic similarity.
req_text(requirements) ==
    Join(" ", SkillItems(requirements)) \o " " \o Join(" ", GetList(requirements, "education"))
    \o (IF "experience" \in DOMAIN requirements
        THEN " " \o NumStr(requirements["experience"]) \o " years experience"
        ELSE "")

\* round(num/den) for num >= 0, den > 0: Python rounds halves to even.
RoundHalfEven(num, den) ==
    LET q == num \div den
        r == num % den
    IN IF 2 * r < den THEN q
       ELSE IF 2 * r > den THEN q + 1
       ELSE IF q % 2 = 0 THEN q ELSE q + 1

set_req(requirements) == {canonicalize_skill(x) : x \in Range(SkillItems(requirements))}

set_cand(requirements, resume_text) ==
    LET items == SkillItems(requirements)
        req_skills == [i \in 1..Len(items) |-> canonicalize_skill(items[i])]
    IN Range(extract_skills(resume_text, req_skills))

\* breakdown["matched_skills"], from set_req and set_cand
matched_skills(sr, sc) == Sorted(sr \cap sc)

\* missing_skills listing every required skill.
missing_skills_all(sr, sc) == Sorted(sr)

\* breakdown["missing_skills"], from set_req and set_cand
missing_skills(sr, sc) == Sorted(sr \ sc)

\* skills_score as a true Jaccard index: over the union, not the required set.
skills_score_true_jaccard(sr, sc) ==
    IF sr # {} THEN RoundHalfEven(100 * Cardinality(sr \cap sc), Cardinality(sr \cup sc)) ELSE 100

\* int(round(jacc * 100)), from set_req and set_cand
skills_score(sr, sc) ==
    IF sr # {} THEN RoundHalfEven(100 * Cardinality(sr \cap sc), Cardinality(sr)) ELSE 100

\* extract_years_of_experience(resume_text) or 0
OrZero(y) == IF y.some THEN y.years ELSE 0

cand_years(resume_text) == OrZero(extract_years_of_experience(resume_text))

\* exp_score without the cap at the required years.
exp_score_uncapped(requirements, resume_text) ==
    IF "experience" \notin DOMAIN requirements \/ requirements["experience"] = 0 THEN 100
    ELSE 40 + ((60 * cand_years(resume_text)) \div requirements["experience"])

\* exp_score rounding to the nearest integer instead of cutting the fraction.
exp_score_rounded(requirements, resume_text) ==
    LET cy == cand_years(resume_text)
    IN IF "experience" \notin DOMAIN requirements \/ requirements["experience"] = 0 THEN 100
       ELSE IF cy >= requirements["experience"] THEN 100
       ELSE 40 + RoundHalfEven(60 * cy, requirements["experience"])

\* The experience score for a required number of years that is not zero:
\* int(40 + max(0.0, ratio) * 60) below it, 100 from it on.
exp_ratio_score(cy, req_years) ==
    IF cy >= req_years THEN 100
    ELSE 40 + ((IF cy < 0 THEN 0 ELSE 60 * cy) \div req_years)

exp_score(requirements, resume_text) ==
    IF "experience" \notin DOMAIN requirements \/ requirements["experience"] = 0 THEN 100
    ELSE exp_ratio_score(cand_years(resume_text), requirements["experience"])

\* The overall score with the weights of skills and experience exchanged.
overall_thousandths_swapped(skills, experience, education, sim) ==
    9 * (25 * skills + 60 * experience + 15 * education) + sim

\* The weighted overall score before rounding, in thousandths: 0.9 * (0.6 skills +
\* 0.25 experience + 0.15 education) + 0.1 * (sim * 100), sim in units of 1/10000.
overall_thousandths(skills, experience, education, sim) ==
    9 * (60 * skills + 25 * experience + 15 * education) + sim

\* round(overall, 2), in hundredths.  A value halfway between two hundredths is a
\* binary float just above or just below the tie, so either neighbour can come
\* out: up tells which.
round2(thousandths, up) ==
    LET q == thousandths \div 10
        r == thousandths % 10
    IN IF r < 5 THEN q ELSE IF r > 5 THEN q + 1 ELSE IF up THEN q + 1 ELSE q

\* breakdown["semantic"]: int(round(sim * 100))
semantic_score(sim) == RoundHalfEven(sim, 100)

\* What compute_fit raises or returns, from the similarity, the two skill sets
\* and the experience and education scores.
fit_result(cos, sr, sc, e, d, up) ==
    IF cos.raises THEN [raised |-> "ValueError"]
    ELSE [raised |-> "",
          overall |-> round2(overall_thousandths(skills_score(sr, sc), e, d, cos.sim), up),
          skills |-> skills_score(sr, sc),
          experience |-> e,
          education |-> d,
          semantic |-> semantic_score(cos.sim),
          matched_skills |-> matched_skills(sr, sc),
          missing_skills |-> missing_skills(sr, sc)]

\* compute_fit: [raised |-> the exception] or [raised |-> "", overall |-> hundredths,
\* and the fields of the breakdown].
compute_fit(requirements, resume_text, up) ==
    fit_result(tfidf_cosine(req_text(requirements), resume_text),
               set_req(requirements),
               set_cand(requirements, resume_text),
               exp_score(requirements, resume_text),
               education_match_score(requirements, resume_text),
               up)

(***************************************************************************)
(* Resume feedback (resume_quality)                                        *)
(*                                                                         *)
(* The readability backend (textstat) and the grammar backend              *)
(* (language_tool_python) are outside the program: what they do during a   *)
(* call is given with the call.  textstat is [state |-> "unavailable"] (the *)
(* import failed), [state |-> "raises"] or [state |-> "ok", values |-> the  *)
(* three figures].  grammar is [state |-> "unavailable" | "ctor_raises" |   *)
(* "check_raises" | "checked", matches |-> the matches of tool.check], a    *)
(* match being [ok |-> FALSE] when reading its message raises and           *)
(* [ok |-> TRUE, message |-> the message] otherwise.                        *)
(***************************************************************************)
ACTION_VERBS ==
    <<"built", "developed", "designed", "led", "optimized", "implemented", "launched",
      "automated", "reduced", "increased", "improved", "delivered", "owned", "created",
      "engineered", "constructed", "initiated", "executed", "analyzed", "produced",
      "managed", "mentored", "collaborated", "pioneered", "streamlined", "transformed",
      "generated", "identified", "resolved", "researched", "trained", "verified",
      "conceptualized">>

GENERIC_PHRASES ==
    <<"responsible for", "worked on", "helped with", "involved in", "participated in",
      "hardworking", "team player", "result-oriented", "self-starter",
      "duties included", "tasked with", "a strong communicator", "goal-oriented", "flexible">>

SECTIONS ==
    <<"education", "experience", "projects", "skills", "certifications",
      "summary", "achievements", "objective", "internships", "work">>

\* \b before index i of s (i in 1..Len(s)+1): exactly one of s[i-1], s[i] is a
\* word character.
WordBoundary(s, i) ==
    (i > 1 /\ IsWordChar(Char(s, i - 1))) # (i <= Len(s) /\ IsWordChar(Char(s, i)))

RECURSIVE WordEnd(_, _)
\* Index of the last character of the run of word characters that covers i.
WordEnd(s, i) ==
    IF i < Len(s) /\ IsWordChar(Char(s, i + 1)) THEN WordEnd(s, i + 1) ELSE i

\* The auxiliaries of PASSIVE_HINT.
PassiveAux == {"was", "were", "is", "are", "been", "being", "be"}

\* \s+\w+ed\b tried at index k: whitespace, then a word that ends in ed.
PassiveTail(s, k, j) ==
    /\ j > k
    /\ j <= Len(s)
    /\ IsWordChar(Char(s, j))
    /\ WordEnd(s, j) >= j + 2
    /\ LowerAt(s, WordEnd(s, j) - 1, 2) = "ed"

\* PASSIVE_HINT.search(s) is not None.  The lazy .*? and the optional by match
\* the empty string, so the hint is an auxiliary as a word, whitespace, and a
\* word in -ed.
PASSIVE_HINT(s) ==
    \E aux \in PassiveAux : \E i \in 1..Len(s) :
        /\ LowerAt(s, i, Len(aux)) = aux
        /\ WordBoundary(s, i)
        /\ WordBoundary(s, i + Len(aux))
        /\ PassiveTail(s, i + Len(aux), SkipSpace(s, i + Len(aux)))

\* re.search(r"\b\d+%\b", s) is not None
HasPercent(s) ==
    \E i \in 1..Len(s) :
        /\ IsDigit(Char(s, i))
        /\ WordBoundary(s, i)
        /\ DigitsEnd(s, i) < Len(s)
        /\ Char(s, DigitsEnd(s, i) + 1) = "%"
        /\ WordBoundary(s, DigitsEnd(s, i) + 2)

\* re.search(r"\b\d+\b", s) is not None
HasNumber(s) ==
    \E i \in 1..Len(s) :
        /\ IsDigit(Char(s, i))
        /\ WordBoundary(s, i)
        /\ WordBoundary(s, DigitsEnd(s, i) + 1)

\* [x] if cond else []
Opt(cond, x) == IF cond THEN <<x>> ELSE <<>>

\* xs[:n]
Take(xs, n) == SubSeq(xs, 1, IF Len(xs) < n THEN Len(xs) ELSE n)

\* any(x in s for x in xs)
ContainsAny(s, xs) == \E k \in 1..Len(xs) : Contains(s, xs[k])

\* [x for x in xs if x in s]
ThoseIn(s, xs) == SelectSeq(xs, LAMBDA x : Contains(s, x))

\* [x for x in xs if x not in s]
ThoseNotIn(s, xs) == SelectSeq(xs, LAMBDA x : ~Contains(s, x))

\* The tip on missing sections: the first three are named.
SectionTip(missing_sections) ==
    IF Len(missing_sections) = 0 THEN <<>>
    ELSE <<"Consider adding sections: " \o Join(", ", Take(missing_sections, 3)) \o ".">>

\* The tip on generic phrasing: the first generic phrase found is named.
GenericTip(found) ==
    IF Len(found) = 0 THEN <<>>
    ELSE <<"Replace generic phrase '" \o found[1] \o "' with specific, impact-focused wording.">>

\* The tips that depend on the text alone, in the order they are appended.
TextTips(resume_text, text_norm) ==
    SectionTip(ThoseNotIn(text_norm, SECTIONS))
    \o Opt(~ContainsAny(text_norm, ACTION_VERBS),
           "Use strong action verbs (e.g., built, optimized, implemented) at bullet starts.")
    \o GenericTip(ThoseIn(text_norm, GENERIC_PHRASES))
    \o Opt(PASSIVE_HINT(resume_text),
           "Reduce passive voice; prefer active constructions (e.g., 'Designed X' vs 'X was designed').")
    \o Opt(~HasPercent(resume_text) /\ ~HasNumber(resume_text),
           "Quantify impact with numbers (e.g., 'reduced latency by 35%').")

\* readability: the three figures when textstat is there and does not raise,
\* else the empty dict (written <<>>).
readability(textstat) == IF textstat.state = "ok" THEN textstat.values ELSE <<>>

\* The tip appended after the figures were computed (the dash of the source's
\* text is written -).
ReadabilityTip(textstat) ==
    Opt(textstat.state = "ok",
        "Aim for concise bullets (typically 10-20 words). Avoid long sentences.")

\* One turn of the loop over the matches: the message is appended if it is not
\* blank and not seen yet.
AddMessage(grammar_issues, msg) ==
    IF msg # "" /\ msg \notin Range(grammar_issues) THEN Append(grammar_issues, msg)
    ELSE grammar_issues

RECURSIVE GrammarLoop(_, _, _)
\* The loop over the matches from index i on.  Reading a message that raises
\* leaves the loop through "except Exception: pass", with grammar_issues as it
\* stands; ten messages end the loop.
GrammarLoop(matches, i, grammar_issues) ==
    IF i > Len(matches) THEN grammar_issues
    ELSE IF ~matches[i].ok THEN grammar_issues
    ELSE IF Len(AddMessage(grammar_issues, Strip(matches[i].message))) >= 10
         THEN AddMessage(grammar_issues, Strip(matches[i].message))
    ELSE GrammarLoop(matches, i + 1, AddMessage(grammar_issues, Strip(matches[i].message)))

\* grammar_issues of resume_quality
grammar_issues(grammar) ==
    IF grammar.state = "checked" THEN GrammarLoop(grammar.matches, 1, <<>>) ELSE <<>>

\* resume_quality(resume_text), with what the two backends do during the call.
\* No exception leaves it: every backend call is inside try/except Exception.
resume_quality(resume_text, textstat, grammar) ==
    [readability |-> readability(textstat),
     grammar_issues |-> grammar_issues(grammar),
     suggestions |-> TextTips(resume_text, normalize(resume_text)) \o ReadabilityTip(textstat)]

(***************************************************************************)
(* Contact information (analyze_contact_info)                              *)
(***************************************************************************)
\* Every character of s[i..j] is in the set cls.
AllIn(s, i, j, cls) == \A k \in i..j : Char(s, k) \in cls

Letters == CharsOf(LowerChars) \cup CharsOf(UpperChars)

\* [A-Za-z0-9._%+-]
EmailLocalChars == Letters \cup Digits \cup {".", "_", "%", "+", "-"}

\* [A-Za-z0-9.-]
EmailDomainChars == Letters \cup Digits \cup {".", "-"}

\* [A-Z|a-z]
EmailTldChars == Letters \cup {"|"}

\* email_pattern matched with its @ at index a: a run of local characters that
\* starts at a word boundary, the @, a run of domain characters, a point, and two
\* or more top-level characters that end at a word boundary.
EmailAt(s, a) ==
    /\ Char(s, a) = "@"
    /\ \E i \in 1..(a - 1) : WordBoundary(s, i) /\ AllIn(s, i, a - 1, EmailLocalChars)
    /\ \E d \in (a + 2)..Len(s) :
          /\ Char(s, d) = "."
          /\ AllIn(s, a + 1, d - 1, EmailDomainChars)
          /\ \E e \in (d + 2)..Len(s) :
                AllIn(s, d + 1, e, EmailTldChars) /\ WordBoundary(s, e + 1)

\* re.search(email_pattern, s) is not None
HasEmail(s) == \E a \in 1..Len(s) : EmailAt(s, a)

\* [-.\s]
PhoneSeps == {"-", ".", " ", "\t", "\n"}

\* s[i..i+n-1] is n digits.
DigitsAt(s, i, n) == i + n - 1 <= Len(s) /\ AllIn(s, i, i + n - 1, Digits)

\* The optional character class cls at index i: the indices the match can go on
\* from (i itself, and i + 1 when s[i] is in cls).
AfterOpt(s, i, cls) == {i} \cup {k \in {i + 1} : i <= Len(s) /\ Char(s, i) \in cls}

\* \(?([0-9]{3})\)?[-.\s]?([0-9]{3})[-.\s]?([0-9]{4}) matched at index p.  The
\* group (\+?1[-.\s]?)? before it is optional, so a search finds the pattern
\* where this part of it matches.
PhoneAt(s, p) ==
    \E a \in AfterOpt(s, p, {"("}) :
        /\ DigitsAt(s, a, 3)
        /\ \E b \in AfterOpt(s, a + 3, {")"}) : \E c \in AfterOpt(s, b, PhoneSeps) :
              /\ DigitsAt(s, c, 3)
              /\ \E d \in AfterOpt(s, c + 3, PhoneSeps) : DigitsAt(s, d, 4)

\* re.search(phone_pattern, s) is not None
HasPhone(s) == \E p \in 1..Len(s) : PhoneAt(s, p)

\* [\w-]
SlugChars == WordChars \cup {"-"}

\* re.search(prefix + "[\w-]+", s, re.IGNORECASE) is not None, prefix a
\* literal in lower case.
HasProfile(s, prefix) ==
    \E i \in 1..Len(s) :
        /\ LowerAt(s, i, Len(prefix)) = prefix
        /\ i + Len(prefix) <= Len(s)
        /\ Char(s, i + Len(prefix)) \in SlugChars

HasLinkedin(s) == HasProfile(s, "linkedin.com/in/")

HasGithub(s) == HasProfile(s, "github.com/")

\* The keywords of a technical role.
TechKeywords == <<"developer", "programmer", "engineer", "coding">>

\* bool as an int
BoolInt(b) == IF b THEN 1 ELSE 0

\* The report, from the four fields found and the technical-role test.
contact_report(email, phone, linkedin, github, tech) ==
    [email |-> email,
     phone |-> phone,
     linkedin |-> linkedin,
     github |-> github,
     issues |-> Opt(~email, "Missing email address")
                \o Opt(~phone, "Missing phone number")
                \o Opt(~linkedin, "Consider adding LinkedIn profile")
                \o Opt(~github /\ tech, "Consider adding GitHub profile for technical roles"),
     completeness_score |-> (BoolInt(email) + BoolInt(phone) + BoolInt(linkedin) + BoolInt(github)) * 25]

\* analyze_contact_info with the GitHub issue raised whatever the role.
analyze_contact_info_any_role(resume_text) ==
    contact_report(HasEmail(resume_text), HasPhone(resume_text), HasLinkedin(resume_text),
                   HasGithub(resume_text), TRUE)

analyze_contact_info(resume_text) ==
    contact_report(HasEmail(resume_text), HasPhone(resume_text), HasLinkedin(resume_text),
                   HasGithub(resume_text), ContainsAny(Lower(resume_text), TechKeywords))

(***************************************************************************)
(* ATS optimization (analyze_ats_optimization)                             *)
(***************************************************************************)
\* re.search(r'[^\x00-\x7F]', s) is not None
HasNonAscii(s) == \E i \in 1..Len(s) : Char(s, i) \in CharsOf(AccentedChars)

\* [\w\s\-\.\,\:\;\(\)\[\]\/]
AtsPlainChars ==
    WordChars \cup {" ", "\t", "\n"} \cup {"-", ".", ",", ":", ";", "(", ")", "[", "]", "/"}

\* re.search(r'[^\w\s\-\.\,\:\;\(\)\[\]\/]', s) is not None
HasSpecialChars(s) == \E i \in 1..Len(s) : Char(s, i) \notin AtsPlainChars

\* re.search(r'\|.*\|', s) is not None: two bars on one line.
HasTable(s) ==
    \E i \in 1..Len(s) : \E j \in (i + 1)..Len(s) :
        /\ Char(s, i) = "|"
        /\ Char(s, j) = "|"
        /\ \A k \in (i + 1)..(j - 1) : Char(s, k) # "\n"

\* ^ under re.MULTILINE: index i opens a line.
LineStart(s, i) == i = 1 \/ Char(s, i - 1) = "\n"

\* re.search('^(a|b|...)', s, re.MULTILINE | re.IGNORECASE) is not None: a line
\* opens with one of the headers.
HasHeader(s, headers) ==
    \E i \in 1..Len(s) : \E h \in headers : LineStart(s, i) /\ LowerAt(s, i, Len(h)) = h

Months == {"jan", "feb", "mar", "apr", "may", "jun", "jul", "aug", "sep", "oct", "nov", "dec"}

RECURSIVE LettersEnd(_, _)
\* Index of the last letter of the run of letters that covers i ([a-z]* under
\* re.IGNORECASE).
LettersEnd(s, i) ==
    IF i < Len(s) /\ Char(s, i + 1) \in Letters THEN LettersEnd(s, i + 1) ELSE i

\* \s+\d{4} tried at index k, j the index after the whitespace: the index after
\* the match, 0 when it does not match.
SpaceThenYear(s, k, j) == IF j > k /\ DigitsAt(s, j, 4) THEN j + 4 ELSE 0

\* \b(?:jan|...|dec)[a-z]*\s+\d{4} tried at index i: the index after the match,
\* 0 when it does not match.
MonthYearEnd(s, i) ==
    IF WordBoundary(s, i) /\ LowerAt(s, i, 3) \in Months
    THEN SpaceThenYear(s, LettersEnd(s, i + 2) + 1, SkipSpace(s, LettersEnd(s, i + 2) + 1))
    ELSE 0

\* \d{1,2}[/-] tried at index i: the index after the match, 0 when it does not
\* match.
DayPartEnd(s, i) ==
    IF /\ i <= Len(s)
       /\ IsDigit(Char(s, i))
       /\ DigitsEnd(s, i) <= i + 1
       /\ DigitsEnd(s, i) < Len(s)
       /\ Char(s, DigitsEnd(s, i) + 1) \in {"/", "-"}
    THEN DigitsEnd(s, i) + 2
    ELSE 0

\* \d{2,4}\b tried at index i: the index after the match, 0 when it does not
\* match.
YearPartEnd(s, i) ==
    IF /\ i >= 1
       /\ i <= Len(s)
       /\ IsDigit(Char(s, i))
       /\ DigitsEnd(s, i) \in (i + 1)..(i + 3)
       /\ WordBoundary(s, DigitsEnd(s, i) + 1)
    THEN DigitsEnd(s, i) + 1
    ELSE 0

\* \b\d{1,2}[/-]\d{1,2}[/-]\d{2,4}\b tried at index i.
NumericDateEnd(s, i) ==
    IF WordBoundary(s, i) /\ DayPartEnd(s, i) > 0 /\ DayPartEnd(s, DayPartEnd(s, i)) > 0
    THEN YearPartEnd(s, DayPartEnd(s, DayPartEnd(s, i)))
    ELSE 0

\* \s*-\s*\d{4}\b tried at index k, j the index after the first whitespace.  (The
\* pattern also takes an en dash, which the texts of the model do not have.)
DashThenYear(s, j) ==
    IF /\ j <= Len(s)
       /\ Char(s, j) = "-"
       /\ DigitsAt(s, SkipSpace(s, j + 1), 4)
       /\ WordBoundary(s, SkipSpace(s, j + 1) + 4)
    THEN SkipSpace(s, j + 1) + 4
    ELSE 0

\* \b\d{4}\s*[-...]\s*\d{4}\b tried at index i.
YearRangeEnd(s, i) ==
    IF WordBoundary(s, i) /\ DigitsAt(s, i, 4) THEN DashThenYear(s, SkipSpace(s, i + 4)) ELSE 0

\* The date pattern tried at index i: the index after the match of the first
\* alternative that matches, 0 when none does.
DateEnd(s, i) ==
    IF MonthYearEnd(s, i) > 0 THEN MonthYearEnd(s, i)
    ELSE IF NumericDateEnd(s, i) > 0 THEN NumericDateEnd(s, i)
    ELSE YearRangeEnd(s, i)

RECURSIVE DatesFrom(_, _)
\* re.findall(date pattern, s) as a set, from index i on: the leftmost match, and
\* the matches from its end on.
DatesFrom(s, i) ==
    IF \A k \in i..Len(s) : DateEnd(s, k) = 0 THEN {}
    ELSE DatesFrom(s, DateEnd(s, CHOOSE k \in i..Len(s) :
                                    DateEnd(s, k) > 0 /\ \A j \in i..(k - 1) : DateEnd(s, j) = 0))
         \cup {SubSeq(s, k, DateEnd(s, k) - 1) :
                  k \in {x \in i..Len(s) : DateEnd(s, x) > 0 /\ \A j \in i..(x - 1) : DateEnd(s, j) = 0}}

\* set(date_patterns)
date_patterns(s) == DatesFrom(s, 1)

\* One check of analyze_ats_optimization: what it appends to issues and to
\* suggestions when it fires.
AtsCheck(fires, issue, suggestion) ==
    [issues |-> Opt(fires, issue), suggestions |-> IF fires THEN suggestion ELSE <<>>]

\* The seven checks on a text, in the order of the source.
AtsChecks(resume_text) ==
    <<AtsCheck(HasNonAscii(resume_text),
               "Contains non-ASCII characters that may cause ATS issues",
               <<"Use standard ASCII characters only">>),
      AtsCheck(HasSpecialChars(resume_text),
               "Contains special characters that may confuse ATS",
               <<"Avoid excessive special characters">>),
      AtsCheck(HasTable(resume_text),
               "Contains tables which may not parse well in ATS",
               <<"Convert tables to bullet points or simple text">>),
      AtsCheck(~HasHeader(resume_text, {"experience", "work history", "employment"}),
               "Missing clear 'Experience' section header",
               <<"Use standard section headers: Experience, Education, Skills">>),
      AtsCheck(~HasHeader(resume_text, {"education", "academic"}),
               "Missing clear 'Education' section header",
               <<>>),
      AtsCheck(~HasHeader(resume_text, {"skills", "technical skills", "technologies"}),
               "Missing clear 'Skills' section header",
               <<>>),
      AtsCheck(Cardinality(date_patterns(resume_text)) > 3,
               "Inconsistent date formatting",
               <<"Use consistent date format (e.g., MM/YYYY)">>)>>

RECURSIVE FlattenFrom(_, _)
\* The sequences xss[i], xss[i+1], ... concatenated.
FlattenFrom(xss, i) == IF i > Len(xss) THEN <<>> ELSE xss[i] \o FlattenFrom(xss, i + 1)

\* ats_score without the floor at 0.
ats_score_unfloored(issues) == 100 - Len(issues) * 15

\* max(0, 100 - len(issues) * 15)
ats_score(issues) == IF 100 - Len(issues) * 15 > 0 THEN 100 - Len(issues) * 15 ELSE 0

\* The report, from the checks.
ats_report(checks) ==
    [issues |-> FlattenFrom([k \in 1..Len(checks) |-> checks[k].issues], 1),
     suggestions |-> FlattenFrom([k \in 1..Len(checks) |-> checks[k].suggestions], 1),
     ats_score |-> ats_score(FlattenFrom([k \in 1..Len(checks) |-> checks[k].issues], 1))]

analyze_ats_optimization(resume_text) == ats_report(AtsChecks(resume_text))

(***************************************************************************)
(* Keyword density (analyze_keyword_density)                               *)
(***************************************************************************)
RECURSIVE CountFrom(_, _, _)
\* The occurrences of x in s from index i on that do not overlap, counted from
\* the left (x is not empty).
CountFrom(s, x, i) ==
    IF i + Len(x) - 1 > Len(s) THEN 0
    ELSE IF SubSeq(s, i, i + Len(x) - 1) = x THEN 1 + CountFrom(s, x, i + Len(x))
    ELSE CountFrom(s, x, i + 1)

\* s.count(x)
Count(s, x) == IF x = "" THEN Len(s) + 1 ELSE CountFrom(s, x, 1)

\* round(count / word_count * 100, 2) if word_count > 0 else 0, in hundredths.
Density(count, word_count) ==
    IF word_count > 0 THEN RoundHalfEven(count * 10000, word_count) ELSE 0

\* The keys of keyword_counts: the keywords in the order of their first
\* occurrence in target_keywords.
KeywordKeys(target_keywords) ==
    SelectSeq([k \in 1..Len(target_keywords) |->
                  IF \E j \in 1..(k - 1) : target_keywords[j] = target_keywords[k]
                  THEN <<>> ELSE <<target_keywords[k]>>],
              LAMBDA x : x # <<>>)

\* keyword_counts, as the sequence of its items.
keyword_counts(text_lower, word_count, keys) ==
    [k \in 1..Len(keys) |->
        [keyword |-> keys[k][1],
         count |-> Count(text_lower, Lower(keys[k][1])),
         density |-> Density(Count(text_lower, Lower(keys[k][1])), word_count)]]

RECURSIVE TotalCount(_, _)
\* sum(kw["count"] for kw in keyword_counts.values())
TotalCount(counts, k) == IF k > Len(counts) THEN 0 ELSE counts[k].count + TotalCount(counts, k + 1)

\* The recommendation about one keyword, if any.
KeywordTip(item) ==
    IF item.count = 0 THEN <<"Consider adding '" \o item.keyword \o "' if relevant">>
    ELSE IF item.density > 200 THEN <<"Reduce overuse of '" \o item.keyword \o "'">>
    ELSE <<>>

\* The report, from keyword_counts, their total and the number of words.
keyword_report(counts, total, word_count) ==
    [keyword_counts |-> counts,
     overall_density |-> Density(total, word_count),
     recommendations |->
         (IF word_count = 0 \/ total * 100 < word_count
          THEN <<"Increase keyword density - aim for 1-2%">>
          ELSE IF total * 100 > 3 * word_count
          THEN <<"Reduce keyword density - avoid keyword stuffing">>
          ELSE <<>>)
         \o FlattenFrom([k \in 1..Len(counts) |-> KeywordTip(counts[k])], 1)]

\* keyword_report on the counts of the keywords in a text of so many words.
keyword_density(counts, word_count) == keyword_report(counts, TotalCount(counts, 1), word_count)

analyze_keyword_density(resume_text, target_keywords) ==
    keyword_density(keyword_counts(Lower(resume_text), Len(Split(Lower(resume_text))),
                                   KeywordKeys(target_keywords)),
                    Len(Split(Lower(resume_text))))

(***************************************************************************)
(* Professional summary (analyze_professional_summary)                     *)
(***************************************************************************)
SummaryHeads == <<"summary", "profile", "objective", "about me">>

\* The index after the head that opens at index i in s (IGNORECASE), 0 when none
\* does.
HeadEnd(s, i) ==
    IF \E k \in 1..Len(SummaryHeads) : LowerAt(s, i, Len(SummaryHeads[k])) = SummaryHeads[k]
    THEN i + Len(SummaryHeads[CHOOSE k \in 1..Len(SummaryHeads) :
                                LowerAt(s, i, Len(SummaryHeads[k])) = SummaryHeads[k]])
    ELSE 0

RECURSIVE SkipColons(_, _)
\* [:\s]*, greedy, from index i: the index after it.
SkipColons(s, i) ==
    IF i <= Len(s) /\ (Char(s, i) = ":" \/ IsSpace(Char(s, i))) THEN SkipColons(s, i + 1) ELSE i

RECURSIVE LineEnd(_, _)
\* (.+?)(?:\n\n|\n[A-Z]|$) from index i <= Len(s), under MULTILINE and DOTALL:
\* the index of the last character of the group, which takes one character and
\* goes on to the first end of a line.
LineEnd(s, i) == IF i >= Len(s) \/ Char(s, i + 1) = "\n" THEN i ELSE LineEnd(s, i + 1)

\* The group of the first pattern for a head that ends before index j <= Len(s):
\* [:\s]* gives the last character back when it has taken the rest of the text.
HeadGroup(s, j) ==
    IF SkipColons(s, j) <= Len(s)
    THEN SubSeq(s, SkipColons(s, j), LineEnd(s, SkipColons(s, j)))
    ELSE SubSeq(s, Len(s), Len(s))

\* The indices at which the first pattern matches.
HeadMatches(s) == {i \in 1..Len(s) : HeadEnd(s, i) > 0 /\ HeadEnd(s, i) <= Len(s)}

\* A paragraph ends before index p: (?=\n\n|\n[A-Z]) under IGNORECASE.
ParagraphEnd(s, p) ==
    /\ p < Len(s)
    /\ Char(s, p) = "\n"
    /\ (Char(s, p + 1) = "\n" \/ Char(s, p + 1) \in Letters)

\* The lengths n of .{50,200} with which the second pattern matches at index i.
BlockLengths(s, i) == {n \in 50..200 : ParagraphEnd(s, i + n)}

\* The indices at which the second pattern matches: line starts after which none
\* of the three section names occurs.
BlockMatches(s) ==
    {i \in 1..Len(s) :
        /\ LineStart(s, i)
        /\ ~ContainsAny(Lower(SubSeq(s, i, Len(s))), <<"experience", "education", "skills">>)
        /\ BlockLengths(s, i) # {}}

\* The least of a set of numbers that is not empty.
Least(S) == CHOOSE x \in S : \A y \in S : x <= y

\* The greatest of a set of numbers that is not empty.
Greatest(S) == CHOOSE x \in S : \A y \in S : x >= y

\* The summary that the patterns find: [found, text].
FindSummary(s) ==
    IF HeadMatches(s) # {}
    THEN [found |-> TRUE, text |-> Strip(HeadGroup(s, HeadEnd(s, Least(HeadMatches(s)))))]
    ELSE IF BlockMatches(s) # {}
    THEN [found |-> TRUE,
          text |-> Strip(SubSeq(s, Least(BlockMatches(s)),
                                Least(BlockMatches(s))
                                    + Greatest(BlockLengths(s, Least(BlockMatches(s)))) - 1))]
    ELSE [found |-> FALSE, text |-> ""]

\* s[i:].startswith(x)
StartsAt(s, i, x) == i + Len(x) - 1 <= Len(s) /\ SubSeq(s, i, i + Len(x) - 1) = x

SummaryUnits == <<"year", "month", "people", "project", "dollar", "%">>

\* \b\d+%|\b\d+\s*(?:years?|months?|people|projects?|dollars?|%) matches at i.
QuantityAt(s, i) ==
    /\ WordBoundary(s, i)
    /\ i <= Len(s)
    /\ IsDigit(Char(s, i))
    /\ \E k \in 1..Len(SummaryUnits) :
          StartsAt(s, SkipSpace(s, DigitsEnd(s, i) + 1), SummaryUnits[k])

\* has_numbers
HasQuantity(s) == \E i \in 1..Len(s) : QuantityAt(s, i)

\* The issue and the suggestions about a summary of so many words.
SummaryLengthIssue(n) ==
    IF n < 20 THEN [issues |-> <<"Professional summary too short">>,
                    suggestions |-> <<"Expand summary to 20-50 words">>]
    ELSE IF n > 100 THEN [issues |-> <<"Professional summary too long">>,
                          suggestions |-> <<"Keep summary concise (20-50 words)">>]
    ELSE [issues |-> <<>>, suggestions |-> <<>>]

\* The report, from what the patterns found.
summary_report(summary) ==
    [found |-> summary.found,
     text |-> summary.text,
     word_count |-> IF summary.text # "" THEN Len(Split(summary.text)) ELSE 0,
     issues |-> IF summary.found THEN SummaryLengthIssue(Len(Split(summary.text))).issues
                ELSE <<"Missing professional summary section">>,
     suggestions |->
         IF summary.found
         THEN SummaryLengthIssue(Len(Split(summary.text))).suggestions
              \o Opt(~ContainsAny(Lower(summary.text), ACTION_VERBS),
                     "Use strong action verbs in summary")
              \o Opt(~HasQuantity(summary.text), "Include quantifiable achievements in summary")
         ELSE <<"Add a compelling 2-3 line professional summary">>]

analyze_professional_summary(resume_text) == summary_report(FindSummary(resume_text))

(***************************************************************************)
(* The composite analysis (comprehensive_resume_analysis)                  *)
(***************************************************************************)
\* quality.get('readability', {}).get('flesch_reading_ease', 0) / 10, in
\* hundredths (the ease is held in tenths).
EaseScore(quality) ==
    IF quality.readability = <<>> THEN 0 ELSE quality.readability.flesch_reading_ease

\* min(100, keyword_analysis['overall_density'] * 50), in hundredths.
DensityScore(keyword_analysis) ==
    IF keyword_analysis.overall_density * 50 < 10000 THEN keyword_analysis.overall_density * 50
    ELSE 10000

\* scores, in hundredths.
Scores(quality, contact, summary, ats, keyword_analysis) ==
    <<EaseScore(quality), contact.completeness_score * 100, ats.ats_score * 100,
      IF summary.found THEN 8000 ELSE 0>>
    \o (IF keyword_analysis = <<>> THEN <<>> ELSE <<DensityScore(keyword_analysis)>>)

RECURSIVE Sum(_, _)
Sum(xs, k) == IF k > Len(xs) THEN 0 ELSE xs[k] + Sum(xs, k + 1)

\* round(x, 1) of x = hundredths / (100 * n), in tenths.  Python rounds a half
\* to even when x is the half exactly, as it is when the scores are whole
\* numbers; otherwise x is a binary float just above or just below the half, so
\* either neighbour can come out: up tells which.
round1(hundredths, n, whole, up) ==
    IF (2 * hundredths) % (20 * n) = 10 * n /\ ~whole
    THEN (hundredths \div (10 * n)) + (IF up THEN 1 ELSE 0)
    ELSE RoundHalfEven(hundredths, 10 * n)

\* overall_score, in tenths.
overall_score(scores, up) ==
    round1(Sum(scores, 1), Len(scores), \A k \in 1..Len(scores) : scores[k] % 100 = 0, up)

\* The report, from the sub-analyses.
comprehensive_report(quality, contact, summary, ats, keyword_analysis, up) ==
    [overall_score |-> overall_score(Scores(quality, contact, summary, ats, keyword_analysis), up),
     quality_analysis |-> quality,
     contact_analysis |-> contact,
     summary_analysis |-> summary,
     ats_analysis |-> ats,
     keyword_analysis |-> keyword_analysis,
     recommendations |->
         [priority |-> <<"Focus on quantifiable achievements", "Use strong action verbs",
                         "Optimize for ATS compatibility", "Include relevant keywords naturally">>,
          quick_wins |-> <<"Add missing contact information", "Include professional summary",
                           "Use consistent formatting", "Proofread for grammar errors">>]]

\* comprehensive_resume_analysis, after its call of resume_quality has returned
\* quality.
comprehensive_after_quality(quality, resume_text, target_skills, up) ==
    comprehensive_report(quality,
                         analyze_contact_info(resume_text),
                         analyze_professional_summary(resume_text),
                         analyze_ats_optimization(resume_text),
                         IF target_skills = <<>> THEN <<>>
                         ELSE analyze_keyword_density(resume_text, target_skills),
                         up)

comprehensive_resume_analysis(resume_text, target_skills, textstat, grammar, up) ==
    comprehensive_after_quality(resume_quality(resume_text, textstat, grammar),
                                resume_text, target_skills, up)

(***************************************************************************)
(* The inputs of the model                                                 *)
(***************************************************************************)
\* Resume texts are up to MaxPhrases of these phrases joined by spaces, and
\* the texts of ExampleTexts.
MaxPhrases == 2

Phrases ==
    {"Experienced React and Node.js developer,", "also know js and k8s",
     "5 years experience...", "2.5 yrs", "BSc Computer Science", "C++ & R",
     "Python, Docker"}

ExampleTexts ==
    {"5 years experience... Python, Docker, BSc Computer Science",
     "NLP:\tNatural Language Processing\n3+ Years, 12 yrs Machine  Learning",
     "member since 2019"}

PhraseSeqs == UNION {[1..n -> Phrases] : n \in 0..MaxPhrases}

Texts == {Join(" ", ps) : ps \in PhraseSeqs} \cup ExampleTexts

\* Requirement sets: well-formed ones, and the malformed ones (a negative
\* experience, a skills value that is a str).
Requirements ==
    {<<>>,
     [skills |-> [list |-> <<"python", "docker">>], experience |-> 50,
      education |-> <<"computer science">>],
     [skills |-> [list |-> <<"JS", "javascript", " React", "K8s", "k8s">>]],
     [skills |-> [list |-> <<>>], experience |-> 0, education |-> <<>>],
     [skills |-> [list |-> <<"natural language processing", "Machine Learning", "C++">>],
      experience |-> 70, education |-> <<"Law">>],
     [experience |-> 120],
     [experience |-> 0 - 10],
     [skills |-> [str |-> "r c"]]}

\* Custom skill lists of extract_skills.
CustomLists ==
    {<<>>, <<"Developer", " Computer Science", "JS">>, <<"natural language processing", "k8s">>}

\* str.upper() on one character.
UpperChar(c) ==
    IF IndexOf(LowerChars, c) > 0 THEN Char(UpperChars, IndexOf(LowerChars, c)) ELSE c

\* str.upper()
Upper(s) == Concat([i \in 1..Len(s) |-> UpperChar(Char(s, i))])

\* Tokens given to canonicalize_skill: the lexicon, the alias keys and targets
\* and two other words, as written, in upper case, and padded with up to MaxPad
\* whitespace characters on each side.
MaxPad == 1

RECURSIVE Pad(_)
Pad(n) == IF n = 0 THEN {""} ELSE {w \o c : w \in Pad(n - 1), c \in {"", " ", "\n"}}

BaseTokens ==
    DEFAULT_SKILLS \cup DOMAIN SKILL_SYNONYMS \cup {SKILL_SYNONYMS[k] : k \in DOMAIN SKILL_SYNONYMS}
    \cup {"", "cobol"}

Tokens ==
    {l \o t \o r : l \in Pad(MaxPad), r \in Pad(MaxPad),
                   t \in BaseTokens \cup {Upper(b) : b \in BaseTokens}}

\* Resume texts given to resume_quality.
QualityTexts ==
    {"",
     "Responsible for testing. The API was designed by me",
     "Built 3 projects; skills, education, experience",
     "Summary: led a team\nWork: improved latency by 35%",
     "were\tDELIVERED hardworking team player a5%b",
     "Education Experience Projects Skills Certifications Summary Achievements Objective Internships Work is bed 7"}

\* What textstat does during a call (figures in tenths).
TextstatOutcomes ==
    {[state |-> "unavailable"], [state |-> "raises"],
     [state |-> "ok",
      values |-> [flesch_reading_ease |-> 652, smog_index |-> 81, avg_sentence_length |-> 120]]}

\* The matches a check can return are runs of the messages 1..MaxMatches; some
\* are blank, some repeat an earlier message with whitespace around it.
MaxMatches == 16

MatchMessage(k) ==
    IF k % 5 = 0 THEN " "
    ELSE IF k % 6 = 0 THEN " Issue " \o NatStr(k - 2) \o "\n"
    ELSE "Issue " \o NatStr(k)

AllMatches == [k \in 1..MaxMatches |-> [ok |-> TRUE, message |-> MatchMessage(k)]]

MatchRuns == {SubSeq(AllMatches, i, j) : i \in 1..(MaxMatches + 1), j \in 0..MaxMatches}

\* What language_tool_python does during a call: a run of matches, possibly
\* followed by a match whose message cannot be read.
GrammarOutcomes ==
    {[state |-> "unavailable"], [state |-> "ctor_raises"], [state |-> "check_raises"]}
    \cup {[state |-> "checked", matches |-> ms] : ms \in MatchRuns}
    \cup {[state |-> "checked", matches |-> Append(ms, [ok |-> FALSE])] : ms \in MatchRuns}

\* Resume texts given to analyze_contact_info: up to MaxPhrases of these
\* phrases, one per line, and three fuller headers.
ContactPhrases ==
    {"jane.doe@example.com", "(555) 123-4567", "LinkedIn.com/in/jane-doe",
     "github.com/jdoe", "Software Developer", "call 5551234567 now", "mail: a@b.c",
     "x_y%z@mail-1.example.co|m", "555-12-34567 linkedin.com/in/ github.com/"}

ContactTexts ==
    {Join("\n", ps) : ps \in UNION {[1..n -> ContactPhrases] : n \in 0..MaxPhrases}}
    \cup {"Jane Doe, Engineer\njane.doe@example.com | +1 555.123.4567\nlinkedin.com/in/jane-doe github.com/jdoe",
          "jane.doe@example.com 5551234567 linkedin.com/in/j GITHUB.COM/j accountant",
          "Programmer\n(555)123 4567\nsee github.com/jdoe and linkedin.com/in/jdoe"}

\* Resume texts given to analyze_ats_optimization: up to MaxPhrases of these
\* lines, and five fuller texts.
AtsLines ==
    {"Experience", "EDUCATION:", "Technical Skills", "work history and employment",
     "résumé", "C# & C++", "| a | b |", "Jan 2020 - March  2021", "01/02/2020 to 3-4-21",
     "2018 - 2019, 2019-2020", "academic | technologies"}

AtsTexts ==
    {Join("\n", ps) : ps \in UNION {[1..n -> AtsLines] : n \in 0..MaxPhrases}}
    \cup {"Experience\nJan 2020 jan 2020 Sept\t2019-2020 1/2/20\nEducation\nSkills",
          "café #1 | a | Jan 2020 Feb 2021 1/2/2020 2019-2020",
          "Summary\nExperience\nBuilt things 12/2019-1/2020, 2019-20201, 123/1/2020",
          "Employment\nAcademic record\n2019 -\n2020 decade 1999 Mayday  2000x",
          "Work History\nAcademic\nTechnologies: C, Go (2019-2020)"}

(***************************************************************************)
(* The state machine: one call of one operation.  call holds the operation *)
(* and its arguments, pc is "call" before it runs and "done" after, ret is  *)
(* what it returned (or raised).                                           *)
(***************************************************************************)
NoRet == [op |-> "none"]

\* The core called on its own: nothing stored, no request in progress.
NoApp ==
    /\ companies = <<>>
    /\ candidates = <<>>
    /\ heap = <<>>
    /\ threads = <<>>
    /\ written = <<>>

InitCanon ==
    /\ call \in {[op |-> "canonicalize_skill", tok |-> t] : t \in Tokens}
    /\ pc = "call"
    /\ ret = NoRet
    /\ NoApp

InitSkills ==
    /\ call \in {[op |-> "extract_skills", text |-> t, custom_list |-> c] :
                    t \in Texts, c \in CustomLists}
    /\ pc = "call"
    /\ ret = NoRet
    /\ NoApp

InitEdu ==
    /\ call \in {[op |-> "education_match_score", requirements |-> r, resume_text |-> t] :
                    r \in Requirements, t \in Texts}
    /\ pc = "call"
    /\ ret = NoRet
    /\ NoApp

InitFit ==
    /\ call \in {[op |-> "compute_fit", requirements |-> r, resume_text |-> t] :
                    r \in Requirements, t \in Texts}
    /\ pc = "call"
    /\ ret = NoRet
    /\ NoApp

InitQuality ==
    /\ call \in {[op |-> "resume_quality", resume_text |-> t, textstat |-> ts, grammar |-> g] :
                    t \in QualityTexts, ts \in TextstatOutcomes, g \in GrammarOutcomes}
    /\ pc = "call"
    /\ ret = NoRet
    /\ NoApp

InitContact ==
    /\ call \in {[op |-> "analyze_contact_info", resume_text |-> t] : t \in ContactTexts}
    /\ pc = "call"
    /\ ret = NoRet
    /\ NoApp

InitAts ==
    /\ call \in {[op |-> "analyze_ats_optimization", resume_text |-> t] : t \in AtsTexts}
    /\ pc = "call"
    /\ ret = NoRet
    /\ NoApp

CanonicalizeSkill ==
    /\ pc = "call"
    /\ call.op = "canonicalize_skill"
    /\ ret' = [op |-> call.op, value |-> canonicalize_skill(call.tok)]
    /\ pc' = "done"
    /\ UNCHANGED call
    /\ UNCHANGED app

ExtractSkills ==
    /\ pc = "call"
    /\ call.op = "extract_skills"
    /\ ret' = [op |-> call.op, value |-> extract_skills(call.text, call.custom_list)]
    /\ pc' = "done"
    /\ UNCHANGED call
    /\ UNCHANGED app

EducationMatchScore ==
    /\ pc = "call"
    /\ call.op = "education_match_score"
    /\ ret' = [op |-> call.op,
               value |-> education_match_score(call.requirements, call.resume_text)]
    /\ pc' = "done"
    /\ UNCHANGED call
    /\ UNCHANGED app

ComputeFit ==
    /\ pc = "call"
    /\ call.op = "compute_fit"
    /\ \E up \in BOOLEAN :
          ret' = [op |-> call.op,
                  value |-> compute_fit(call.requirements, call.resume_text, up)]
    /\ pc' = "done"
    /\ UNCHANGED call
    /\ UNCHANGED app

ResumeQuality ==
    /\ pc = "call"
    /\ call.op = "resume_quality"
    /\ ret' = [op |-> call.op,
               value |-> resume_quality(call.resume_text, call.textstat, call.grammar)]
    /\ pc' = "done"
    /\ UNCHANGED call
    /\ UNCHANGED app

AnalyzeContactInfo ==
    /\ pc = "call"
    /\ call.op = "analyze_contact_info"
    /\ ret' = [op |-> call.op, value |-> analyze_contact_info(call.resume_text)]
    /\ pc' = "done"
    /\ UNCHANGED call
    /\ UNCHANGED app

AnalyzeAtsOptimization ==
    /\ pc = "call"
    /\ call.op = "analyze_ats_optimization"
    /\ ret' = [op |-> call.op, value |-> analyze_ats_optimization(call.resume_text)]
    /\ pc' = "done"
    /\ UNCHANGED call
    /\ UNCHANGED app

SpecCanon == InitCanon /\ [][CanonicalizeSkill]_vars

SpecSkills == InitSkills /\ [][ExtractSkills]_vars

SpecEdu == InitEdu /\ [][EducationMatchScore]_vars

SpecFit == InitFit /\ [][ComputeFit]_vars

SpecQuality == InitQuality /\ [][ResumeQuality]_vars

SpecContact == InitContact /\ [][AnalyzeContactInfo]_vars

SpecAts == InitAts /\ [][AnalyzeAtsOptimization]_vars

(***************************************************************************)
(* The request layer (src/app.py).  companies and candidates are the two   *)
(* dicts of the core, from id to record.  A Company holds a reference to   *)
(* the dict of requirements parsed from the request that wrote it: heap    *)
(* holds these dicts, by address, for as long as something refers to them. *)
(* threads holds, for each worker of the server, how far its handler is,   *)
(* the handler's local variables, and its response once it has returned.   *)
(* written records, for each store and id, the body of the last request    *)
(* that wrote the record (history, no part of the program).                *)
(***************************************************************************)
MaxId == 2

MaxWorkers == 2

Ids == 1..MaxId

\* The requirements of the company with id i, in the requests to the server.
AppRequirements(i) ==
    IF i = 1
    THEN [skills |-> [list |-> <<"python", "docker">>], experience |-> 50,
          education |-> <<"computer science">>]
    ELSE [skills |-> [list |-> <<"C">>]]

\* The resume text of the candidate with id i, in the requests to the server.
AppText(i) ==
    IF i = 1 THEN "5 years experience... Python, Docker, BSc Computer Science"
    ELSE "member since 2019"

\* JSON bodies of POST /company: company_id, and name and requirements or not.
CompanyBodies ==
    {[company_id |-> i] : i \in Ids}
    \cup {[company_id |-> i, name |-> "Acme", requirements |-> AppRequirements(i)] : i \in Ids}

\* JSON bodies of POST /candidate: candidate_id, and name and resume_text or not.
CandidateBodies ==
    {[candidate_id |-> i] : i \in Ids}
    \cup {[candidate_id |-> i, name |-> "Jane", resume_text |-> AppText(i)] : i \in Ids}

\* dict.get(key, default)
Get(d, key, default) == IF key \in DOMAIN d THEN d[key] ELSE default

\* str(i) of a non-negative int below 10.
IntStr(i) == Char(DigitChars, i + 1)

\* Company(company_id, name, requirements) of create_company, requirements being
\* the address of the dict of requirements.
NewCompany(data, requirements) ==
    [company_id |-> data.company_id,
     name |-> Get(data, "name", "company-" \o IntStr(data.company_id)),
     requirements |-> requirements]

\* Candidate(candidate_id, name, resume_text) of create_candidate.
NewCandidate(data) ==
    [candidate_id |-> data.candidate_id,
     name |-> Get(data, "name", "candidate-" \o IntStr(data.candidate_id)),
     resume_text |-> Get(data, "resume_text", "")]

\* A dict is the sequence of its items [key, value], in insertion order.
\* list(d.keys())
Keys(d) == [i \in 1..Len(d) |-> d[i].key]

\* key in d
Has(d, key) == \E i \in 1..Len(d) : d[i].key = key

\* d[key]
Lookup(d, key) == d[CHOOSE i \in 1..Len(d) : d[i].key = key].value

\* The dict after d[key] = value, emptied of everything else first.
SetItemAlone(d, key, value) == <<[key |-> key, value |-> value]>>

\* The dict after d[key] = value: a key that is there keeps its place, a new one
\* goes last.
SetItem(d, key, value) ==
    IF Has(d, key)
    THEN [i \in 1..Len(d) |-> IF d[i].key = key THEN [key |-> key, value |-> value] ELSE d[i]]
    ELSE Append(d, [key |-> key, value |-> value])

\* None, where an address is expected.
None == 0

\* The dicts of requirements that the local variables of a handler refer to.
Held(th) == IF "requirements" \in DOMAIN th THEN {th.requirements} \ {None} ELSE {}

\* The dicts of requirements that something refers to.
Live(comps, ths) ==
    {comps[i].value.requirements : i \in 1..Len(comps)} \cup UNION {Held(ths[w]) : w \in DOMAIN ths}

\* The heap once the dicts that nothing refers to are freed (reference counts).
Collect(h, comps, ths) == [a \in DOMAIN h \cap Live(comps, ths) |-> h[a]]

\* The heap with a new dict r at address a.
New(h, a, r) == [b \in DOMAIN h \cup {a} |-> IF b = a THEN r ELSE h[b]]

\* The address of a dict that is written in place of the first one.
AllocInPlace(h) == 1

\* The address of a new dict: the first that is free.
Alloc(h) == CHOOSE a \in 1..(Cardinality(DOMAIN h) + 1) : a \notin DOMAIN h /\ \A b \in 1..(a - 1) : b \in DOMAIN h

\* asdict(c) of a Company: the dict of requirements is copied.
CompanyDict(h, c) ==
    [company_id |-> c.company_id, name |-> c.name, requirements |-> h[c.requirements]]

NotFound == [status |-> 404, body |-> [error |-> "not found"]]

\* A worker that is free to take a request.
Free(w) == threads[w].pc \in {"idle", "done"}

\* What a worker holds once its handler has returned.
Done(op, args, resp) == [pc |-> "done", op |-> op, args |-> args, resp |-> resp]

\* The same, with the calls of the core that the handler made (history): for
\* each the operation, its arguments as they were when it was called, what the
\* optional backends returned to it, and its result.
DoneCalls(op, args, resp, calls) ==
    [pc |-> "done", op |-> op, args |-> args, resp |-> resp, calls |-> calls]

FitCall(requirements, resume_text, result) ==
    [op |-> "compute_fit",
     args |-> [requirements |-> requirements, resume_text |-> resume_text],
     backends |-> <<>>,
     result |-> result]

QualityCall(resume_text, textstat, grammar, result) ==
    [op |-> "resume_quality",
     args |-> [resume_text |-> resume_text],
     backends |-> [textstat |-> textstat, grammar |-> grammar],
     result |-> result]

\* The server as it starts: nothing stored.
InitApp ==
    /\ call = [op |-> "serve"]
    /\ pc = "serve"
    /\ ret = NoRet
    /\ companies = <<>>
    /\ candidates = <<>>
    /\ heap = <<>>
    /\ written = [companies |-> <<>>, candidates |-> <<>>]

\* The server with MaxWorkers workers.
InitServer ==
    /\ InitApp
    /\ threads = [w \in 1..MaxWorkers |-> [pc |-> "idle"]]

\* The server handling one request at a time.
InitSequential ==
    /\ InitApp
    /\ threads = [w \in 1..1 |-> [pc |-> "idle"]]

\* The step of worker w to local variables th that stores company c, made from a
\* new dict of requirements r at address a.
StoreCompany(w, th, c, a, r) ==
    /\ companies' = SetItem(companies, c.company_id, c)
    /\ threads' = [threads EXCEPT ![w] = th]
    /\ heap' = Collect(New(heap, a, r),
                       SetItem(companies, c.company_id, c), [threads EXCEPT ![w] = th])

\* The step of worker w to local variables th, which writes to no store.
Step(w, th) ==
    /\ threads' = [threads EXCEPT ![w] = th]
    /\ heap' = Collect(heap, companies, [threads EXCEPT ![w] = th])
    /\ UNCHANGED <<call, pc, ret, companies, candidates, written>>

\* create_company, up to the write to the store: the body is parsed into a fresh
\* dict, and the record that refers to it is stored.
CreateCompany(w, data) ==
    /\ Free(w)
    /\ StoreCompany(w, [pc |-> "create_company", data |-> data],
                    NewCompany(data, Alloc(heap)), Alloc(heap), Get(data, "requirements", <<>>))
    /\ written' = [written EXCEPT !.companies = SetItem(written.companies, data.company_id, data)]
    /\ UNCHANGED <<call, pc, ret, candidates>>

\* create_company, the response: asdict(companies[company_id]) reads the store
\* again.
CreateCompanyReturn(w) ==
    /\ threads[w].pc = "create_company"
    /\ Step(w, Done("create_company", threads[w].data,
                    [status |-> 200,
                     body |-> [message |-> "company upserted",
                               company |-> CompanyDict(heap, Lookup(companies, threads[w].data.company_id))]]))

\* get_company
GetCompany(w, company_id) ==
    /\ Free(w)
    /\ Step(w, Done("get_company", [company_id |-> company_id],
                    IF Has(companies, company_id)
                    THEN [status |-> 200, body |-> CompanyDict(heap, Lookup(companies, company_id))]
                    ELSE NotFound))

\* create_candidate, up to the write to the store.
CreateCandidate(w, data) ==
    /\ Free(w)
    /\ candidates' = SetItem(candidates, data.candidate_id, NewCandidate(data))
    /\ written' = [written EXCEPT !.candidates = SetItem(written.candidates, data.candidate_id, data)]
    /\ threads' = [threads EXCEPT ![w] = [pc |-> "create_candidate", data |-> data]]
    /\ heap' = Collect(heap, companies, [threads EXCEPT ![w] = [pc |-> "create_candidate", data |-> data]])
    /\ UNCHANGED <<call, pc, ret, companies>>

\* create_candidate, the response.
CreateCandidateReturn(w) ==
    /\ threads[w].pc = "create_candidate"
    /\ Step(w, Done("create_candidate", threads[w].data,
                    [status |-> 200,
                     body |-> [message |-> "candidate upserted",
                               candidate |-> Lookup(candidates, threads[w].data.candidate_id)]]))

\* get_candidate
GetCandidate(w, candidate_id) ==
    /\ Free(w)
    /\ Step(w, Done("get_candidate", [candidate_id |-> candidate_id],
                    IF Has(candidates, candidate_id)
                    THEN [status |-> 200, body |-> Lookup(candidates, candidate_id)]
                    ELSE NotFound))

\* The store endpoints.
StoreNext ==
    \/ \E w \in DOMAIN threads : \E data \in CompanyBodies : CreateCompany(w, data)
    \/ \E w \in DOMAIN threads : CreateCompanyReturn(w)
    \/ \E w \in DOMAIN threads : \E i \in Ids : GetCompany(w, i)
    \/ \E w \in DOMAIN threads : \E data \in CandidateBodies : CreateCandidate(w, data)
    \/ \E w \in DOMAIN threads : CreateCandidateReturn(w)
    \/ \E w \in DOMAIN threads : \E i \in Ids : GetCandidate(w, i)

SpecStore == InitSequential /\ [][StoreNext]_vars

(***************************************************************************)
(* The analysis endpoints.  A handler that calls compute_fit and           *)
(* resume_quality holds the arguments in its local variables: requirements *)
(* is the address of the dict of requirements, resume_text the text.       *)
(* compute_fit reads the dict twice, with steps of the other workers in    *)
(* between: for the text of the requirements, and for the three scores.    *)
(***************************************************************************)
\* The readability backend of the server: installed, and answering.
AppTextstat ==
    [state |-> "ok",
     values |-> [flesch_reading_ease |-> 652, smog_index |-> 81, avg_sentence_length |-> 120]]

\* What the grammar backend does in one call of resume_quality on the server: it
\* fails to start, or it checks the text.
AppGrammar ==
    {[state |-> "ctor_raises"],
     [state |-> "checked", matches |-> <<[ok |-> TRUE, message |-> "Issue 1"]>>]}

\* Arguments of comprehensive_resume_analysis.
ComprehensiveArgs ==
    {[resume_text |-> AppText(1), target_skills |-> <<"python", "go">>],
     [resume_text |-> "Summary: led a team\nWork: improved latency by 35%",
      target_skills |-> <<>>]}

\* The dicts of requirements and the texts that reach the core from the
\* requests.
CoreRequirements == {<<>>} \cup {AppRequirements(i) : i \in Ids}

CoreTexts == {""} \cup {AppText(i) : i \in Ids} \cup {a.resume_text : a \in ComprehensiveArgs}

\* The operations of the core are functions of their arguments and of what the
\* backends return: they are tabulated over the arguments that reach them.
\* tfidf_cosine(req_text, resume_text) of compute_fit.
CosineOf ==
    [requirements \in CoreRequirements, resume_text \in CoreTexts |->
        tfidf_cosine(req_text(requirements), resume_text)]

\* The skills of compute_fit, and its experience and education scores.
ScoresOf ==
    [requirements \in CoreRequirements, resume_text \in CoreTexts |->
        [set_req |-> set_req(requirements),
         set_cand |-> set_cand(requirements, resume_text),
         exp_score |-> exp_score(requirements, resume_text),
         edu_score |-> education_match_score(requirements, resume_text)]]

\* resume_quality, by the text and what the grammar backend does.
QualityOf ==
    [resume_text \in CoreTexts, grammar \in AppGrammar |->
        resume_quality(resume_text, AppTextstat, grammar)]

\* The analyses of comprehensive_resume_analysis after resume_quality.
AnalysesOf ==
    [args \in ComprehensiveArgs |->
        [contact |-> analyze_contact_info(args.resume_text),
         summary |-> analyze_professional_summary(args.resume_text),
         ats |-> analyze_ats_optimization(args.resume_text),
         keyword_analysis |-> IF args.target_skills = <<>> THEN <<>>
                              ELSE analyze_keyword_density(args.resume_text, args.target_skills)]]

\* JSON bodies of POST /analyze/by-id.
ByIdBodies == {[company_id |-> i, candidate_id |-> j] : i \in Ids, j \in Ids}

\* JSON bodies of POST /analyze/bulk: a company_id or requirements or neither,
\* and a list of candidates or not.
BulkBodies ==
    {[company_id |-> i] : i \in Ids}
    \cup {<<>>,
          [requirements |-> <<>>],
          [requirements |-> AppRequirements(1)],
          [requirements |-> AppRequirements(1), candidates |-> <<>>],
          [company_id |-> 1, candidates |-> <<2, MaxId + 1, 1>>]}

\* An unhandled exception in a handler.
ServerError(exception) == [status |-> 500, body |-> [error |-> exception]]

\* analyze_by_id, up to companies.get.
AnalyzeById(w, data) ==
    /\ Free(w)
    /\ Step(w, [pc |-> "analyze_by_id", data |-> data,
                requirements |-> IF Has(companies, data.company_id)
                                 THEN Lookup(companies, data.company_id).requirements
                                 ELSE None,
                comp |-> IF Has(companies, data.company_id)
                         THEN [company_id |-> data.company_id,
                               name |-> Lookup(companies, data.company_id).name]
                         ELSE None])

\* analyze_by_id: candidates.get, and 404 without the company or the candidate.
ByIdCandidate(w) ==
    /\ threads[w].pc = "analyze_by_id"
    /\ Step(w, IF threads[w].requirements = None \/ ~Has(candidates, threads[w].data.candidate_id)
               THEN Done("analyze_by_id", threads[w].data,
                         [status |-> 404, body |-> [error |-> "company or candidate not found"]])
               ELSE [pc |-> "compute_fit", handler |-> "analyze_by_id", data |-> threads[w].data,
                     requirements |-> threads[w].requirements,
                     given |-> heap[threads[w].requirements],
                     comp |-> threads[w].comp,
                     cand |-> Lookup(candidates, threads[w].data.candidate_id)])

\* compute_fit, up to the similarity: the text of the requirements is read from
\* the dict; an exception ends the handler.
FitText(w) ==
    /\ threads[w].pc = "compute_fit"
    /\ Step(w, IF CosineOf[heap[threads[w].requirements], threads[w].cand.resume_text].raises
               THEN DoneCalls(threads[w].handler, threads[w].data, ServerError("ValueError"),
                              <<FitCall(threads[w].given, threads[w].cand.resume_text,
                                        [raised |-> "ValueError"])>>)
               ELSE [threads[w] EXCEPT !.pc = "fit_scores"] @@
                    [cos |-> CosineOf[heap[threads[w].requirements], threads[w].cand.resume_text]])

\* What compute_fit returns, from the similarity found before and the scores.
FitFrom(cos, scores, up) ==
    fit_result(cos, scores.set_req, scores.set_cand, scores.exp_score, scores.edu_score, up)

\* compute_fit, the scores, from the dict of requirements as it is now, and the
\* return.
FitScores(w) ==
    /\ threads[w].pc = "fit_scores"
    /\ \E up \in BOOLEAN :
          Step(w, [threads[w] EXCEPT !.pc = "resume_quality"] @@
                  [fit |-> FitFrom(threads[w].cos,
                                   ScoresOf[heap[threads[w].requirements],
                                            threads[w].cand.resume_text],
                                   up)])

\* "fit_score" and "fit_breakdown" of a response.
FitScore(fit) == fit.overall

FitBreakdown(fit) ==
    [skills |-> fit.skills, experience |-> fit.experience, education |-> fit.education,
     semantic |-> fit.semantic, matched_skills |-> fit.matched_skills,
     missing_skills |-> fit.missing_skills]

\* analyze_by_id: resume_quality, and the response.
ByIdReturn(w) ==
    /\ threads[w].pc = "resume_quality"
    /\ threads[w].handler = "analyze_by_id"
    /\ \E grammar \in AppGrammar :
          Step(w, DoneCalls("analyze_by_id", threads[w].data,
                            [status |-> 200,
                             body |-> [company |-> threads[w].comp,
                                       candidate |-> [candidate_id |-> threads[w].cand.candidate_id,
                                                      name |-> threads[w].cand.name],
                                       fit_score |-> FitScore(threads[w].fit),
                                       fit_breakdown |-> FitBreakdown(threads[w].fit),
                                       resume_quality |->
                                           QualityOf[threads[w].cand.resume_text, grammar]]],
                            <<FitCall(threads[w].given, threads[w].cand.resume_text,
                                      threads[w].fit),
                              QualityCall(threads[w].cand.resume_text, AppTextstat, grammar,
                                          QualityOf[threads[w].cand.resume_text, grammar])>>))

\* analyze_bulk, the requirements: those of the company when the body has a
\* company_id (404 when it is not stored), else those of the body, else None.
AnalyzeBulk(w, data) ==
    /\ Free(w)
    /\ IF "company_id" \in DOMAIN data
       THEN Step(w, IF Has(companies, data.company_id)
                    THEN [pc |-> "analyze_bulk", data |-> data,
                          requirements |-> Lookup(companies, data.company_id).requirements]
                    ELSE Done("analyze_bulk", data,
                              [status |-> 404, body |-> [error |-> "company not found"]]))
       ELSE IF "requirements" \in DOMAIN data
       THEN /\ threads' = [threads EXCEPT ![w] =
                  [pc |-> "analyze_bulk", data |-> data, requirements |-> Alloc(heap)]]
            /\ heap' = Collect(New(heap, Alloc(heap), data.requirements), companies,
                               [threads EXCEPT ![w] =
                                   [pc |-> "analyze_bulk", data |-> data,
                                    requirements |-> Alloc(heap)]])
            /\ UNCHANGED <<call, pc, ret, companies, candidates, written>>
       ELSE Step(w, [pc |-> "analyze_bulk", data |-> data, requirements |-> None])

\* not requirements
Falsy(h, requirements) == requirements = None \/ h[requirements] = <<>>

\* data.get("candidates") or list(candidates.keys())
BulkIds(data) ==
    IF "candidates" \in DOMAIN data /\ data.candidates # <<>> THEN data.candidates
    ELSE Keys(candidates)

\* analyze_bulk: 400 without requirements, else the ids to screen.
BulkRequirements(w) ==
    /\ threads[w].pc = "analyze_bulk"
    /\ Step(w, IF Falsy(heap, threads[w].requirements)
               THEN Done("analyze_bulk", threads[w].data,
                         [status |-> 400, body |-> [error |-> "missing requirements"]])
               ELSE [pc |-> "bulk_loop", data |-> threads[w].data,
                     requirements |-> threads[w].requirements,
                     ids |-> BulkIds(threads[w].data), results |-> <<>>])

\* analyze_bulk, the head of the loop: candidates.get, and continue when there
\* is no such candidate.
BulkCandidate(w) ==
    /\ threads[w].pc = "bulk_loop"
    /\ threads[w].ids # <<>>
    /\ Step(w, IF Has(candidates, Head(threads[w].ids))
               THEN [threads[w] EXCEPT !.pc = "compute_fit", !.ids = Tail(threads[w].ids)] @@
                    [handler |-> "analyze_bulk", given |-> heap[threads[w].requirements],
                     cand |-> Lookup(candidates, Head(threads[w].ids))]
               ELSE [threads[w] EXCEPT !.ids = Tail(threads[w].ids)])

\* analyze_bulk, the rest of the loop body: resume_quality, and results.append.
BulkAppend(w) ==
    /\ threads[w].pc = "resume_quality"
    /\ threads[w].handler = "analyze_bulk"
    /\ \E grammar \in AppGrammar :
          Step(w, [pc |-> "bulk_loop", data |-> threads[w].data,
                   requirements |-> threads[w].requirements,
                   ids |-> threads[w].ids,
                   results |-> Append(threads[w].results,
                       [candidate_id |-> threads[w].cand.candidate_id,
                        name |-> threads[w].cand.name,
                        fit_score |-> FitScore(threads[w].fit),
                        fit_breakdown |-> FitBreakdown(threads[w].fit),
                        resume_quality |-> QualityOf[threads[w].cand.resume_text, grammar]])])

RECURSIVE InsertByScore(_, _, _)
\* results[1..n] sorted by fit_score, highest first, with x put after the entries
\* that score at least as much.
InsertByScore(sorted, x, i) ==
    IF i > Len(sorted) THEN Append(sorted, x)
    ELSE IF sorted[i].fit_score < x.fit_score
         THEN SubSeq(sorted, 1, i - 1) \o <<x>> \o SubSeq(sorted, i, Len(sorted))
         ELSE InsertByScore(sorted, x, i + 1)

RECURSIVE SortByScore(_, _)
\* results.sort(key=lambda x: x["fit_score"], reverse=True) of the first n
\* entries: a stable sort.
SortByScore(results, n) ==
    IF n = 0 THEN <<>> ELSE InsertByScore(SortByScore(results, n - 1), results[n], 1)

\* analyze_bulk, after the loop: the sorted results, and their number.
BulkReturn(w) ==
    /\ threads[w].pc = "bulk_loop"
    /\ threads[w].ids = <<>>
    /\ Step(w, Done("analyze_bulk", threads[w].data,
                    [status |-> 200,
                     body |-> [results |-> SortByScore(threads[w].results, Len(threads[w].results)),
                               count |-> Len(threads[w].results)]]))

\* Upserts and bulk screening.
BulkNext ==
    \/ \E w \in DOMAIN threads : \E data \in CompanyBodies : CreateCompany(w, data)
    \/ \E w \in DOMAIN threads : CreateCompanyReturn(w)
    \/ \E w \in DOMAIN threads : \E data \in CandidateBodies : CreateCandidate(w, data)
    \/ \E w \in DOMAIN threads : CreateCandidateReturn(w)
    \/ \E w \in DOMAIN threads : \E data \in BulkBodies : AnalyzeBulk(w, data)
    \/ \E w \in DOMAIN threads : BulkRequirements(w)
    \/ \E w \in DOMAIN threads : BulkCandidate(w)
    \/ \E w \in DOMAIN threads : FitText(w)
    \/ \E w \in DOMAIN threads : FitScores(w)
    \/ \E w \in DOMAIN threads : BulkAppend(w)
    \/ \E w \in DOMAIN threads : BulkReturn(w)

SpecBulk == InitSequential /\ [][BulkNext]_vars

(***************************************************************************)
(* The core under concurrent callers: workers that upsert records, workers *)
(* that analyse a stored pair, and workers that call                       *)
(* comprehensive_resume_analysis.                                          *)
(***************************************************************************)
\* The requests about the first company and the first candidate.
CoreIds == {1}

\* comprehensive_resume_analysis, up to the return of resume_quality.
ComprehensiveQuality(w, args) ==
    /\ Free(w)
    /\ \E grammar \in AppGrammar :
          Step(w, [pc |-> "comprehensive_resume_analysis", args |-> args,
                   textstat |-> AppTextstat, grammar |-> grammar,
                   quality |-> QualityOf[args.resume_text, grammar]])

\* What comprehensive_resume_analysis returns, from what resume_quality returned
\* and the other analyses.
ComprehensiveFrom(quality, analyses, up) ==
    comprehensive_report(quality, analyses.contact, analyses.summary, analyses.ats,
                         analyses.keyword_analysis, up)

\* The calls of the core of a worker that returns result from
\* comprehensive_resume_analysis.
ComprehensiveCalls(th, result) ==
    <<QualityCall(th.args.resume_text, th.textstat, th.grammar, th.quality),
      [op |-> "comprehensive_resume_analysis",
       args |-> th.args,
       backends |-> [textstat |-> th.textstat, grammar |-> th.grammar],
       result |-> result]>>

\* The return of a worker from comprehensive_resume_analysis with result.
ComprehensiveDone(w, result) ==
    Step(w, DoneCalls("comprehensive_resume_analysis", threads[w].args, result,
                      ComprehensiveCalls(threads[w], result)))

\* comprehensive_resume_analysis, the other analyses and the return.
ComprehensiveReturn(w) ==
    /\ threads[w].pc = "comprehensive_resume_analysis"
    /\ \E up \in BOOLEAN :
          ComprehensiveDone(w, ComprehensiveFrom(threads[w].quality,
                                                 AnalysesOf[threads[w].args], up))

\* Upserts, analyses of stored pairs and composite analyses.
CoreNext ==
    \/ \E w \in DOMAIN threads : \E data \in CompanyBodies :
          data.company_id \in CoreIds /\ CreateCompany(w, data)
    \/ \E w \in DOMAIN threads : CreateCompanyReturn(w)
    \/ \E w \in DOMAIN threads : \E data \in CandidateBodies :
          data.candidate_id \in CoreIds /\ CreateCandidate(w, data)
    \/ \E w \in DOMAIN threads : CreateCandidateReturn(w)
    \/ \E w \in DOMAIN threads : \E data \in ByIdBodies :
          data.company_id \in CoreIds /\ data.candidate_id \in CoreIds /\ AnalyzeById(w, data)
    \/ \E w \in DOMAIN threads : ByIdCandidate(w)
    \/ \E w \in DOMAIN threads : FitText(w)
    \/ \E w \in DOMAIN threads : FitScores(w)
    \/ \E w \in DOMAIN threads : ByIdReturn(w)
    \/ \E w \in DOMAIN threads : \E args \in ComprehensiveArgs : ComprehensiveQuality(w, args)
    \/ \E w \in DOMAIN threads : ComprehensiveReturn(w)

SpecCore == InitServer /\ [][CoreNext]_vars

\* The library called once, or the server with its workers.
Init ==
    \/ InitCanon \/ InitSkills \/ InitEdu \/ InitFit \/ InitQuality \/ InitContact \/ InitAts
    \/ InitServer

Next ==
    \/ CanonicalizeSkill
    \/ ExtractSkills
    \/ EducationMatchScore
    \/ ComputeFit
    \/ ResumeQuality
    \/ AnalyzeContactInfo
    \/ AnalyzeAtsOptimization
    \/ StoreNext
    \/ BulkNext
    \/ CoreNext

Spec == Init /\ [][Next]_vars

(***************************************************************************)
(* Properties                                                              *)
(***************************************************************************)
\* compute_fit has run and returned (it did not raise).
FitReturned == pc = "done" /\ call.op = "compute_fit" /\ ret.value.raised = ""

\* compute_fit has run (it returned or raised).
FitDone == pc = "done" /\ call.op = "compute_fit"

\* A sequence of strings in strictly increasing order: sorted, no duplicates.
StrictlySorted(xs) == \A i \in 1..Len(xs) : \A j \in 1..Len(xs) : i < j => StrLess(xs[i], xs[j])

\* The canonical forms of the required skills of a requirement set.
CanonRequired(requirements) ==
    {canonicalize_skill(x) : x \in Range(SkillItems(requirements))}

\* C1: whenever compute_fit returns, overall_score lies in [0,100] (0..10000
\* hundredths) and the sub-scores skills, experience, education and semantic
\* each lie in [0,100].
C1_ScoresInRange ==
    FitReturned =>
        /\ ret.value.overall \in 0..10000
        /\ ret.value.skills \in 0..100
        /\ ret.value.experience \in 0..100
        /\ ret.value.education \in 0..100
        /\ ret.value.semantic \in 0..100

\* C1 witness: a returned call with nothing matched: no required skill found,
\* required experience unmet with no years stated, no education, no shared term.
C1_Witness ==
    /\ FitReturned
    /\ ret.value.skills = 0
    /\ ret.value.experience = 40
    /\ ret.value.education = 40
    /\ ret.value.semantic = 0
    /\ ret.value.overall = 1440

\* C2: matched_skills and missing_skills partition the set of canonicalized
\* required skills, and both lists are sorted and duplicate-free.
C2_MatchedMissingPartition ==
    FitReturned =>
        LET matched == ret.value.matched_skills
            missing == ret.value.missing_skills
        IN /\ Range(matched) \cup Range(missing) = CanonRequired(call.requirements)
           /\ Range(matched) \cap Range(missing) = {}
           /\ StrictlySorted(matched)
           /\ StrictlySorted(missing)

\* C2 witness: required skills given with aliases and repeats, some found in the
\* resume and some not.
C2_Witness ==
    /\ FitReturned
    /\ Len(ret.value.matched_skills) >= 2
    /\ Len(ret.value.missing_skills) >= 1
    /\ Len(SkillItems(call.requirements)) > Cardinality(CanonRequired(call.requirements))

\* The required skills of the resume's canonical skills: the numerator of the
\* skills score.
RequiredFound(requirements, resume_text) ==
    CanonRequired(requirements)
    \cap Range(extract_skills(resume_text, [i \in 1..Len(SkillItems(requirements)) |->
                                              canonicalize_skill(SkillItems(requirements)[i])]))

\* C3 as stated: skills_score = round(100 * |required and found| / |required
\* skills|) with the required skills counted as the entries of the list, and 100
\* for an empty or absent list.
C3_SkillsScoreOverListLength ==
    FitReturned =>
        LET n == Len(SkillItems(call.requirements))
            k == Cardinality(RequiredFound(call.requirements, call.resume_text))
        IN ret.value.skills = IF n = 0 THEN 100 ELSE RoundHalfEven(100 * k, n)

\* C3 amended: the denominator is the number of distinct canonical forms of the
\* required skills (aliases of one another and repeats count once): skills_score =
\* round(100 * |required and found| / |canonical required skills|), and 100 for an
\* empty or absent list.
C3_SkillsScoreOverCanonicalSet ==
    FitReturned =>
        LET n == Cardinality(CanonRequired(call.requirements))
            k == Cardinality(RequiredFound(call.requirements, call.resume_text))
        IN /\ ret.value.skills = IF n = 0 THEN 100 ELSE RoundHalfEven(100 * k, n)
           /\ Len(SkillItems(call.requirements)) = 0 => ret.value.skills = 100

\* C3 witness: a list of five entries with three canonical forms, two of them
\* found in the resume: the score is round(200/3) = 67, not 100 * 2/5.
C3_Witness ==
    /\ FitReturned
    /\ Len(SkillItems(call.requirements)) = 5
    /\ Cardinality(CanonRequired(call.requirements)) = 3
    /\ Cardinality(RequiredFound(call.requirements, call.resume_text)) = 2
    /\ ret.value.skills = 67

\* C4: experience_score is 100 when required experience is absent or zero; else
\* 100 when the candidate's years (the largest figure stated, 0 if none) reach the
\* required years; else floor(40 + 60 * candidate / required), which is at least
\* 40 and below 100; required 5 with candidate 2.5 gives 70.
C4_ExperienceScore ==
    FitReturned =>
        LET cy == cand_years(call.resume_text)
            e == ret.value.experience
        IN IF "experience" \notin DOMAIN call.requirements THEN e = 100
           ELSE LET ry == call.requirements["experience"]
                IN /\ ry = 0 => e = 100
                   /\ (ry # 0 /\ cy >= ry) => e = 100
                   /\ (ry # 0 /\ cy < ry) => /\ e = 40 + ((60 * cy) \div ry)
                                            /\ e >= 40
                                            /\ e < 100
                   /\ (ry = 50 /\ cy = 25) => e = 70

\* C4 witness: required 7 years, candidate 5 years: 40 + 60 * 5/7 = 82.86 is cut
\* to 82.
C4_Witness ==
    /\ FitReturned
    /\ "experience" \in DOMAIN call.requirements
    /\ call.requirements["experience"] = 70
    /\ cand_years(call.resume_text) = 50
    /\ ret.value.experience = 82

\* education_match_score has run.
EduDone == pc = "done" /\ call.op = "education_match_score"

\* C5: education_match_score returns one of 40, 70, 100: 100 iff required
\* education is non-empty and the resume has a field-of-study match and a degree
\* keyword; 70 iff not so and it has a field match or a degree keyword; 40 iff it
\* has neither.
C5_EducationTiers ==
    EduDone =>
        LET required == Len(GetList(call.requirements, "education")) > 0
            field == edu_field_match(call.requirements, call.resume_text)
            degree == has_degree(call.resume_text)
            top == required /\ field /\ degree
        IN /\ ret.value \in {40, 70, 100}
           /\ ret.value = 100 <=> top
           /\ ret.value = 70 <=> (~top /\ (field \/ degree))
           /\ ret.value = 40 <=> (~field /\ ~degree)

\* C5 witness: a resume with a field match and a degree keyword scored against
\* a requirement set without required education: the middle tier.
C5_Witness ==
    /\ EduDone
    /\ Len(GetList(call.requirements, "education")) = 0
    /\ edu_field_match(call.requirements, call.resume_text)
    /\ has_degree(call.resume_text)
    /\ ret.value = 70

\* C6: the overall score is 0.9 * (0.6 skills + 0.25 experience + 0.15 education)
\* + 0.1 * (similarity * 100) rounded to 2 decimals (within half a hundredth of
\* it, in thousandths); when skills, experience and education are all 100 it is
\* 90 + 10 * similarity, in [90,100].
C6_OverallFormula ==
    FitReturned =>
        LET v == ret.value
            sim == tfidf_cosine(req_text(call.requirements), call.resume_text).sim
            exact == 9 * (60 * v.skills + 25 * v.experience + 15 * v.education) + sim
        IN /\ 10 * v.overall - exact \in (0 - 5)..5
           /\ (v.skills = 100 /\ v.experience = 100 /\ v.education = 100) =>
                 /\ 10 * v.overall - (90000 + sim) \in (0 - 5)..5
                 /\ v.overall \in 9000..10000

\* C6 witness: the end-to-end scenario: skills python and docker, 5 years,
\* computer science, against a resume stating all of them: 100, 100, 100 and an
\* overall score of 98.67.
C6_Witness ==
    /\ FitReturned
    /\ call.resume_text = "5 years experience... Python, Docker, BSc Computer Science"
    /\ ret.value.skills = 100
    /\ ret.value.experience = 100
    /\ ret.value.education = 100
    /\ ret.value.overall = 9867

\* A degenerate call of compute_fit: an empty resume text, an empty requirement
\* set, or two documents without any term.
Degenerate ==
    \/ call.resume_text = ""
    \/ call.requirements = <<>>
    \/ /\ TfidfTokens(req_text(call.requirements)) = <<>>
       /\ TfidfTokens(call.resume_text) = <<>>

\* C7: for degenerate inputs compute_fit does not raise: it returns a complete
\* result, and the similarity of an empty document is 0.
C7_DegenerateInputsReturn ==
    (FitDone /\ Degenerate) =>
        /\ ret.value.raised = ""
        /\ (call.resume_text = "" \/ call.requirements = <<>>) => ret.value.semantic = 0

\* A malformed requirement set: a negative experience, or skills that are not a
\* list.
Malformed(requirements) ==
    \/ "experience" \in DOMAIN requirements /\ requirements["experience"] < 0
    \/ "skills" \in DOMAIN requirements /\ "str" \in DOMAIN requirements["skills"]

\* C8: given a malformed requirement set compute_fit fails with an error; it
\* never returns a score.
C8_MalformedRejected ==
    (FitDone /\ Malformed(call.requirements)) => ret.value.raised # ""

\* canonicalize_skill has run.
CanonDone == pc = "done" /\ call.op = "canonicalize_skill"

\* C9: canonicalize_skill is idempotent: canonicalizing its result gives the
\* result again; and no alias target is an alias key.
C9_CanonicalizeIdempotent ==
    /\ CanonDone => canonicalize_skill(ret.value) = ret.value
    /\ \A k \in DOMAIN SKILL_SYNONYMS : SKILL_SYNONYMS[k] \notin DOMAIN SKILL_SYNONYMS

\* C9 witness: an alias key in upper case with whitespace around it.
C9_Witness ==
    /\ CanonDone
    /\ call.tok = " JS\n"
    /\ ret.value = "javascript"

\* extract_skills has run.
SkillsDone == pc = "done" /\ call.op = "extract_skills"

\* The single tokens and the adjacent token pairs of the normalized text.
Windows(text) ==
    LET toks == Split(normalize(text))
    IN {toks[i] : i \in 1..Len(toks)}
       \cup {toks[i] \o " " \o toks[i + 1] : i \in 1..(Len(toks) - 1)}

\* C10: extract_skills returns a sorted, duplicate-free sequence of exactly the
\* canonical forms of the single tokens and adjacent token pairs of the
\* normalized text that are in the lexicon or among the canonicalized custom
\* terms; the text with React, Node.js, js and k8s yields react, node.js,
\* javascript and kubernetes.
C10_ExtractSkills ==
    SkillsDone =>
        LET known == DEFAULT_SKILLS \cup {canonicalize_skill(c) : c \in Range(call.custom_list)}
            hits == {canonicalize_skill(w) : w \in Windows(call.text)} \cap known
        IN /\ StrictlySorted(ret.value)
           /\ Range(ret.value) = hits
           /\ call.text = "Experienced React and Node.js developer, also know js and k8s" =>
                 {"react", "node.js", "javascript", "kubernetes"} \subseteq Range(ret.value)

\* C10 witness: a text with a custom term of one token, one of two tokens and a
\* lexicon skill of three tokens (natural language processing), which is not
\* found; the alias nlp and the pair machine learning are.
C10_Witness ==
    /\ SkillsDone
    /\ call.text = "NLP:\tNatural Language Processing\n3+ Years, 12 yrs Machine  Learning"
    /\ call.custom_list = <<"natural language processing", "k8s">>
    /\ ret.value = <<"machine learning", "nlp">>

\* resume_quality has run.
QualityDone == pc = "done" /\ call.op = "resume_quality"

\* The messages of the matches, stripped (blank for a match that cannot be read).
Stripped(matches) ==
    [i \in 1..Len(matches) |-> IF matches[i].ok THEN Strip(matches[i].message) ELSE ""]

\* The messages that are not blank, each at its first occurrence, in the order
\* of the backend.
FirstOccurrences(msgs) ==
    LET keep == Ascending({i \in 1..Len(msgs) :
                              msgs[i] # "" /\ \A j \in 1..(i - 1) : msgs[j] # msgs[i]})
    IN [k \in 1..Len(keep) |-> msgs[keep[k]]]

\* The grammar backend was unavailable or failed during the call: there is no
\* module, the constructor or the check raised, or a match that the loop came
\* to (fewer than ten messages were collected before it) could not be read.
GrammarFailed(grammar) ==
    \/ grammar.state # "checked"
    \/ \E i \in 1..Len(grammar.matches) :
          /\ ~grammar.matches[i].ok
          /\ \A j \in 1..(i - 1) : grammar.matches[j].ok
          /\ Len(FirstOccurrences(Stripped(SubSeq(grammar.matches, 1, i - 1)))) < 10

\* C11: resume_quality returns (no exception leaves it) and, when the grammar
\* backend was unavailable or failed at any point (constructor, check, reading a
\* match), grammar_issues is the empty list; when the backend succeeded,
\* grammar_issues holds at most 10 messages, without duplicates, in the order of
\* the backend.
C11_GrammarFailureEmpty ==
    QualityDone =>
        /\ ret.op = "resume_quality"
        /\ GrammarFailed(call.grammar) => ret.value.grammar_issues = <<>>
        /\ ~GrammarFailed(call.grammar) =>
              /\ Len(ret.value.grammar_issues) <= 10
              /\ ret.value.grammar_issues = Take(FirstOccurrences(Stripped(call.grammar.matches)), 10)

\* analyze_contact_info has run.
ContactDone == pc = "done" /\ call.op = "analyze_contact_info"

\* The number of fields a contact report marks as found.
FieldsFound(report) ==
    Cardinality({f \in {"email", "phone", "linkedin", "github"} : report[f]})

\* C13: completeness_score is 25 times the number of detected fields among
\* email, phone, LinkedIn and GitHub, so one of 0, 25, 50, 75, 100 (an email alone
\* gives 25, all four give 100); the GitHub issue is reported only when GitHub is
\* absent and a technical-role keyword is present.
C13_ContactCompleteness ==
    ContactDone =>
        /\ ret.value.completeness_score = 25 * FieldsFound(ret.value)
        /\ ret.value.completeness_score \in {0, 25, 50, 75, 100}
        /\ call.resume_text = "jane.doe@example.com" => ret.value.completeness_score = 25
        /\ call.resume_text = "jane.doe@example.com 5551234567 linkedin.com/in/j GITHUB.COM/j accountant"
              => ret.value.completeness_score = 100
        /\ "Consider adding GitHub profile for technical roles" \in Range(ret.value.issues)
              => (~ret.value.github /\ ContainsAny(Lower(call.resume_text), TechKeywords))

\* C13 witness: an email and a technical role, nothing else: the score is 25 and
\* the GitHub issue is reported.
C13_Witness ==
    /\ ContactDone
    /\ call.resume_text = "jane.doe@example.com\nSoftware Developer"
    /\ ret.value.email
    /\ ret.value.completeness_score = 25
    /\ "Consider adding GitHub profile for technical roles" \in Range(ret.value.issues)

(***************************************************************************)
(* analyze_ats_optimization: the score                                     *)
(***************************************************************************)
AtsDone == pc = "done" /\ ret.op = "analyze_ats_optimization"

\* max(a, b)
Max2(a, b) == IF a >= b THEN a ELSE b

\* C14: analyze_ats_optimization returns ats_score = max(0, 100 - 15 * the
\* number of issues it reports); the score is within 0..100, and a text with
\* exactly 2 issues scores 70.
C14_AtsScore ==
    AtsDone =>
        /\ ret.value.ats_score = Max2(0, 100 - 15 * Len(ret.value.issues))
        /\ ret.value.ats_score \in 0..100
        /\ Len(ret.value.issues) = 2 => ret.value.ats_score = 70

\* A text on which all seven checks fire, so that 100 - 15 * 7 is negative and
\* the score is 0.
C14_Witness == AtsDone /\ Len(ret.value.issues) = 7 /\ ret.value.ats_score = 0

(***************************************************************************)
(* The stores: POST and GET of companies and candidates                    *)
(***************************************************************************)
\* The record that a POST /company with body data writes, as GET shows it.
CompanyPosted(data) ==
    [company_id |-> data.company_id,
     name |-> IF "name" \in DOMAIN data THEN data.name
              ELSE "company-" \o IntStr(data.company_id),
     requirements |-> IF "requirements" \in DOMAIN data THEN data.requirements ELSE <<>>]

\* The record that a POST /candidate with body data writes.
CandidatePosted(data) ==
    [candidate_id |-> data.candidate_id,
     name |-> IF "name" \in DOMAIN data THEN data.name
              ELSE "candidate-" \o IntStr(data.candidate_id),
     resume_text |-> IF "resume_text" \in DOMAIN data THEN data.resume_text ELSE ""]

\* Worker w returns from handler op in this step.
Returns(w, op) ==
    /\ threads'[w] # threads[w]
    /\ threads'[w].pc = "done"
    /\ threads'[w].op = op

\* Worker w writes to a store in handler op in this step.
Writes(w, op) == threads[w].pc # op /\ threads'[w].pc = op

\* A GET answers with the record of the last POST with its id, 404 without one.
GetShowsLastPost(w) ==
    /\ Returns(w, "get_company") =>
          threads'[w].resp =
              IF Has(written.companies, threads'[w].args.company_id)
              THEN [status |-> 200,
                    body |-> CompanyPosted(Lookup(written.companies, threads'[w].args.company_id))]
              ELSE [status |-> 404, body |-> [error |-> "not found"]]
    /\ Returns(w, "get_candidate") =>
          threads'[w].resp =
              IF Has(written.candidates, threads'[w].args.candidate_id)
              THEN [status |-> 200,
                    body |-> CandidatePosted(Lookup(written.candidates, threads'[w].args.candidate_id))]
              ELSE [status |-> 404, body |-> [error |-> "not found"]]

\* The ids of the records of a store.
KeySet(d) == {d[i].key : i \in 1..Len(d)}

\* A POST leaves the records with another id, and the other store, as they were.
PostLeavesTheRest(w) ==
    /\ Writes(w, "create_company") =>
          /\ candidates' = candidates
          /\ KeySet(companies') = KeySet(companies) \cup {threads'[w].data.company_id}
          /\ \A i \in KeySet(companies) \ {threads'[w].data.company_id} :
                CompanyDict(heap', Lookup(companies', i)) = CompanyDict(heap, Lookup(companies, i))
    /\ Writes(w, "create_candidate") =>
          /\ KeySet(companies') = KeySet(companies)
          /\ \A i \in KeySet(companies) :
                CompanyDict(heap', Lookup(companies', i)) = CompanyDict(heap, Lookup(companies, i))
          /\ KeySet(candidates') = KeySet(candidates) \cup {threads'[w].data.candidate_id}
          /\ \A i \in KeySet(candidates) \ {threads'[w].data.candidate_id} :
                Lookup(candidates', i) = Lookup(candidates, i)

\* C16: after any sequence of POST /company and POST /candidate requests, a GET
\* of a company or candidate returns the record written by the most recent
\* POST with that id, and 404 if there was none; a POST with one id leaves every
\* record with another id, and the other store, unchanged.
C16_StoreReadWrite ==
    [][\A w \in DOMAIN threads : GetShowsLastPost(w) /\ PostLeavesTheRest(w)]_vars

\* A GET has answered with the record of a company, posted with a name and
\* requirements, while both stores hold the records of both ids.
C16_Witness ==
    /\ KeySet(companies) = Ids
    /\ KeySet(candidates) = Ids
    /\ \E w \in DOMAIN threads :
          /\ threads[w].pc = "done"
          /\ threads[w].op = "get_company"
          /\ threads[w].resp.status = 200
          /\ threads[w].resp.body = CompanyPosted(Lookup(written.companies, threads[w].args.company_id))
          /\ threads[w].resp.body.name = "Acme"

(***************************************************************************)
(* analyze_bulk: the response, with requests handled one at a time         *)
(***************************************************************************)
\* The requirements a bulk request with body data has, <<>> when it has none.
BulkRequirementsOf(data) ==
    IF "company_id" \in DOMAIN data THEN heap[Lookup(companies, data.company_id).requirements]
    ELSE IF "requirements" \in DOMAIN data THEN data.requirements
    ELSE <<>>

\* The candidate ids a bulk request with body data asks for: those of its list,
\* every stored one when it has no list or an empty one.
BulkRequested(data) ==
    IF "candidates" \in DOMAIN data /\ data.candidates # <<>> THEN Range(data.candidates)
    ELSE KeySet(candidates)

\* fit_score does not increase along the results.
ByScore(results) ==
    \A i \in 1..Len(results) : \A j \in (i + 1)..Len(results) :
        results[i].fit_score >= results[j].fit_score

\* The response that a bulk request with body data owes.
BulkResponseRight(data, resp) ==
    IF "company_id" \in DOMAIN data /\ ~Has(companies, data.company_id) THEN resp.status = 404
    ELSE IF BulkRequirementsOf(data) = <<>> THEN resp.status = 400
    ELSE /\ resp.status = 200
         /\ ByScore(resp.body.results)
         /\ {resp.body.results[i].candidate_id : i \in 1..Len(resp.body.results)}
               = BulkRequested(data) \cap KeySet(candidates)
         /\ resp.body.count = Len(resp.body.results)

\* C15: after any sequence of upserts, a bulk screening request returns the
\* results by fit_score, highest first, with an entry for just the requested
\* candidate ids that are stored (every stored candidate without a filter), and
\* count their number; 404 when its company_id is not stored, and 400 when
\* there are no requirements.
C15_BulkScreening ==
    \A w \in DOMAIN threads :
        threads[w].pc = "done" /\ threads[w].op = "analyze_bulk" =>
            BulkResponseRight(threads[w].args, threads[w].resp)

\* ---------------------------------------------------------------------------
\* The core under concurrent requests
\* ---------------------------------------------------------------------------

\* The places of a worker inside the operations of the core.
CorePcs == {"compute_fit", "fit_scores", "resume_quality", "comprehensive_resume_analysis"}

\* Worker w takes a step inside an operation of the core.
CoreStep(w) ==
    /\ threads'[w] # threads[w]
    /\ threads[w].pc \in CorePcs \/ threads'[w].pc = "comprehensive_resume_analysis"

\* A step inside the core writes to neither store and changes no dict of
\* requirements (a dict that nothing refers to any more may be freed).
CoreFrame ==
    \A w \in DOMAIN threads :
        CoreStep(w) =>
            /\ companies' = companies
            /\ candidates' = candidates
            /\ \A a \in DOMAIN heap' : a \in DOMAIN heap /\ heap'[a] = heap[a]

\* The dict of requirements that a running compute_fit was given is as it was
\* when compute_fit was called.
ArgumentsIntact ==
    \A w \in DOMAIN threads :
        threads[w].pc \in {"compute_fit", "fit_scores"} =>
            heap[threads[w].requirements] = threads[w].given

\* The calls of the core that the handler of worker w made.
Calls(w) == IF "calls" \in DOMAIN threads[w] THEN threads[w].calls ELSE <<>>

AllCalls == UNION {{Calls(w)[i] : i \in 1..Len(Calls(w))} : w \in DOMAIN threads}

\* The operations of the core run alone, by their arguments, what the backends
\* return and the rounding of a tie.
FitAlone ==
    [requirements \in CoreRequirements, resume_text \in CoreTexts, up \in BOOLEAN |->
        compute_fit(requirements, resume_text, up)]

QualityAlone ==
    [resume_text \in CoreTexts, grammar \in AppGrammar |->
        resume_quality(resume_text, AppTextstat, grammar)]

ComprehensiveAlone ==
    [args \in ComprehensiveArgs, grammar \in AppGrammar, up \in BOOLEAN |->
        comprehensive_resume_analysis(args.resume_text, args.target_skills,
                                      AppTextstat, grammar, up)]

\* Call c returned what the same call returns when it runs alone and the
\* backends answer it in the same way.
AsAlone(c) ==
    CASE c.op = "compute_fit" ->
            \E up \in BOOLEAN :
                c.result = FitAlone[c.args.requirements, c.args.resume_text, up]
      [] c.op = "resume_quality" ->
            /\ c.backends.textstat = AppTextstat
            /\ c.result = QualityAlone[c.args.resume_text, c.backends.grammar]
      [] c.op = "comprehensive_resume_analysis" ->
            /\ c.backends.textstat = AppTextstat
            /\ \E up \in BOOLEAN :
                  c.result = ComprehensiveAlone[c.args, c.backends.grammar, up]

\* Two calls of one operation with the same arguments have the same result.
SameArgumentsSameResult ==
    \A c, d \in AllCalls : c.op = d.op /\ c.args = d.args => c.result = d.result

\* C12 (as stated): the core operations compute_fit, resume_quality and
\* comprehensive_resume_analysis never modify the stores or their arguments,
\* and under any interleaving of concurrent calls and store updates the result
\* of a call depends on its arguments only.
C12_CoreDependsOnArgumentsOnly ==
    [][CoreFrame /\ ArgumentsIntact' /\ SameArgumentsSameResult']_vars

\* C12 (amended): the core operations never modify the stores or their
\* arguments, and under any interleaving of concurrent calls and store updates
\* each call returns what the same call returns when run alone with the same
\* answers of the optional readability and grammar backends.
C12_CoreAsAlone ==
    [][CoreFrame /\ ArgumentsIntact' /\ \A c \in AllCalls' : AsAlone(c)]_vars

\* One worker is between the two reads that compute_fit makes of its dict of
\* requirements while another worker has stored other requirements for the
\* same company, and the other worker has since returned from
\* comprehensive_resume_analysis.
C12_Witness ==
    \E w, v \in DOMAIN threads :
        /\ threads[w].pc = "fit_scores"
        /\ Has(companies, threads[w].data.company_id)
        /\ Lookup(companies, threads[w].data.company_id).requirements # threads[w].requirements
        /\ heap[Lookup(companies, threads[w].data.company_id).requirements] # threads[w].given
        /\ threads[v].pc = "done"
        /\ threads[v].op = "comprehensive_resume_analysis"
        /\ threads[v].calls # <<>>

====
